---- MODULE Spec2Model ----
(***************************************************************************)
(* Phase classification and signal scoring engine                          *)
(* (src/src/screening/phase_indicators.py, src/src/screening/              *)
(* signal_engine.py).                                                      *)
(*                                                                         *)
(* The engine is a family of pure functions.  Each specification below     *)
(* draws one call's arguments from a bounded set (Init) and applies one    *)
(* function of the engine to them (its action); the returned record is     *)
(* kept in ret.                                                            *)
(*                                                                         *)
(* Number representation (Python floats become scaled integers):           *)
(*   prices, SMAs held in a PhaseInfo      cents                           *)
(*   stop-loss levels, risk, reward        1/1000 cent (MoneyScale/cent)   *)
(*   percentage distances                  1/100 percent                   *)
(*   slopes held in a PhaseInfo            1/10000 percent per bar         *)
(*   slopes as calculate_slope returns     1/SlopeScale percent per bar    *)
(*   fundamentals (YoY / QoQ changes)      1/10 percent                    *)
(*   score points                          1/PT point                      *)
(*   an SMA series inside classify_phase   window totals (period * mean)   *)
(*   a rolling standard deviation          floor(sqrt(V) * 2^12), V the    *)
(*                                         window's w*sum d^2 - (sum d)^2  *)
(* Products and sums are exact; a quotient is exact whenever the real      *)
(* quotient is a multiple of the unit and is truncated to the unit         *)
(* otherwise.  round() rounds ties to the even neighbour.  Integers are    *)
(* 32 bits wide: closes up to 20.00 with at most 2.50 between the closes   *)
(* of a 20-bar window for classify_phase, prices up to 150.00 elsewhere.   *)
(* The risk/reward ratio of score_buy_signal is compared with thresholds   *)
(* it can equal exactly (a stop clamped to 10 % risk against a 20 % target *)
(* gives 2); those comparisons are made on IEEE-754 doubles, computed as   *)
(* Python computes them.                                                   *)
(***************************************************************************)
EXTENDS Integers, Sequences, FiniteSets, TLC

VARIABLES pc, args, ret

vars == <<pc, args, ret>>

(***************************************************************************)
(* Arithmetic helpers                                                      *)
(***************************************************************************)
Min(a, b) == IF a <= b THEN a ELSE b

Max(a, b) == IF a >= b THEN a ELSE b

Abs(a) == IF a < 0 THEN -a ELSE a

Sign(a) == IF a < 0 THEN -1 ELSE IF a > 0 THEN 1 ELSE 0

\* score points: PT units per point
PT == 24 * 1000

\* 1/1000 cent units per cent
MoneyScale == 10 * 100

\* calculate_slope's result: SlopeScale units per percent
SlopeScale == 10000 * 10000

RECURSIVE MulDivBits(_, _, _, _, _)
\* Horner scheme over the binary digits of b, most significant first:
\* <<q, r>> with a * (leading digits of b) = q * d + r, 0 <= r < d.
MulDivBits(a, b, d, weight, qr) ==
    IF weight = 0 THEN qr
    ELSE LET bit == (b \div weight) % 2
             t   == 2 * qr[2] + a * bit
         IN  MulDivBits(a, b, d, weight \div 2,
                        <<2 * qr[1] + (t \div d), t % d>>)

RECURSIVE TopWeight(_, _)
TopWeight(b, w) == IF 2 * w > b THEN w ELSE TopWeight(b, 2 * w)

\* <<floor(a*b/d), (a*b) mod d>> for a, b >= 0 and d > 0, without forming a*b
MulDivQR(a, b, d) ==
    IF a = 0 \/ b = 0 THEN <<0, 0>>
    ELSE MulDivBits(a, b, d, TopWeight(b, 1), <<0, 0>>)

\* a*b/d truncated toward zero, any signs of a and b, d > 0
MulDiv(a, b, d) == Sign(a) * Sign(b) * MulDivQR(Abs(a), Abs(b), d)[1]

\* a*b1*b2/d truncated toward zero (b1*b2 too wide to form), b1, b2 > 0, d > 0
MulDiv2(a, b1, b2, d) ==
    LET qr1 == MulDivQR(Abs(a), b1, d)
    IN  Sign(a) * (qr1[1] * b2 + MulDivQR(qr1[2], b2, d)[1])

\* floor(a*b1*b2/d), b1, b2 > 0, d > 0
MulDiv2Floor(a, b1, b2, d) ==
    LET qr1 == MulDivQR(Abs(a), b1, d)
        qr2 == MulDivQR(qr1[2], b2, d)
        mag == qr1[1] * b2 + qr2[1]
    IN  IF a >= 0 THEN mag
        ELSE IF qr2[2] = 0 THEN -mag ELSE -mag - 1

\* n/d rounded to the nearest integer, ties to the even one (Python's round), d > 0
RoundDiv(n, d) ==
    LET q == n \div d
        r == n % d
    IN  IF 2 * r < d THEN q
        ELSE IF 2 * r > d THEN q + 1
        ELSE IF q % 2 = 0 THEN q ELSE q + 1

(***************************************************************************)
(* pandas Series: sequences of non-negative integers; NaN marks a missing  *)
(* value.                                                                  *)
(***************************************************************************)
NaN == -1

\* series.iloc[-k:]
ILocLast(s, k) ==
    IF k >= Len(s) THEN s ELSE SubSeq(s, Len(s) - k + 1, Len(s))

RECURSIVE SeqSumRange(_, _, _)
\* s[lo] + ... + s[hi], by halves
SeqSumRange(s, lo, hi) ==
    IF lo > hi THEN 0
    ELSE IF lo = hi THEN s[lo]
    ELSE LET mid == (lo + hi) \div 2
         IN  SeqSumRange(s, lo, mid) + SeqSumRange(s, mid + 1, hi)

\* series.sum()
SeqSum(s) == SeqSumRange(s, 1, Len(s))

RECURSIVE SeqMaxRange(_, _, _)
SeqMaxRange(s, lo, hi) ==
    IF lo = hi THEN s[lo]
    ELSE LET mid == (lo + hi) \div 2
         IN  Max(SeqMaxRange(s, lo, mid), SeqMaxRange(s, mid + 1, hi))

\* series.max() of a non-empty series without missing values
SeqMax(s) == SeqMaxRange(s, 1, Len(s))

RECURSIVE SeqMinRange(_, _, _)
SeqMinRange(s, lo, hi) ==
    IF lo = hi THEN s[lo]
    ELSE LET mid == (lo + hi) \div 2
         IN  Min(SeqMinRange(s, lo, mid), SeqMinRange(s, mid + 1, hi))

\* series.min() of a non-empty series without missing values
SeqMin(s) == SeqMinRange(s, 1, Len(s))

\* Optional[float]
None == [none |-> TRUE]

Some(x) == [none |-> FALSE, val |-> x]

\* an exception leaving the function
Raise(e) == [raised |-> e]

Raised(r) == r.raised # "no"

\* dict.get(key, default)
Get(d, key, default) == IF key \in DOMAIN d THEN d[key] ELSE default

\* len(price_data): the number of bars of the price table
BarCount(price_data) == Len(price_data.Close)

(***************************************************************************)
(* signal_engine.calculate_stop_loss                                       *)
(* current_price and sma_50 in cents; the result in 1/1000 cent.           *)
(***************************************************************************)
\* risk_pct = (current_price - stop_loss) / current_price compared to pct/100
RiskBelow(price, stop_loss, pct) ==
    100 * (price * MoneyScale - stop_loss) < pct * price * MoneyScale

RiskAbove(price, stop_loss, pct) ==
    100 * (price * MoneyScale - stop_loss) > pct * price * MoneyScale

\* StopPhase2 without its "too tight" branch
StopPhase2NoFloor(price_data, current_price, sma_50) ==
    LET recent_low     == IF BarCount(price_data) >= 10
                          THEN SeqMin(ILocLast(price_data.Low, 10))
                          ELSE SeqMin(price_data.Low)
        swing_low_stop == recent_low * 995
        sma_stop       == IF sma_50 > 0 THEN sma_50 * 990 ELSE swing_low_stop
        stop_loss      == Max(swing_low_stop, sma_stop)
    IN  IF RiskAbove(current_price, stop_loss, 10) THEN current_price * 900
        ELSE stop_loss

StopPhase2(price_data, current_price, sma_50) ==
    LET recent_low     == IF BarCount(price_data) >= 10
                          THEN SeqMin(ILocLast(price_data.Low, 10))
                          ELSE SeqMin(price_data.Low)
        swing_low_stop == recent_low * 995
        sma_stop       == IF sma_50 > 0 THEN sma_50 * 990 ELSE swing_low_stop
        stop_loss      == Max(swing_low_stop, sma_stop)
    IN  IF RiskBelow(current_price, stop_loss, 3) THEN current_price * 970
        ELSE IF RiskAbove(current_price, stop_loss, 10) THEN current_price * 900
        ELSE stop_loss

StopPhase1(price_data, current_price) ==
    LET base_low  == IF BarCount(price_data) >= 30
                     THEN SeqMin(ILocLast(price_data.Low, 30))
                     ELSE SeqMin(price_data.Low)
        stop_loss == base_low * 990
    IN  IF RiskAbove(current_price, stop_loss, 10) THEN current_price * 900
        ELSE stop_loss

calculate_stop_loss(price_data, current_price, phase_info, phase) ==
    LET sma_50 == Get(phase_info, "sma_50", 0)
    IN  IF phase = 2 THEN StopPhase2(price_data, current_price, sma_50)
        ELSE StopPhase1(price_data, current_price)

(***************************************************************************)
(* IEEE-754 binary64 arithmetic of the Python floats, round to nearest,    *)
(* ties to even.  A natural number of any size is a sequence of limbs in   *)
(* base 2^15, least significant first, without leading zero limbs; a       *)
(* positive double is [m, e] with 2^52 <= m < 2^53 and value m * 2^e, zero *)
(* has m = <<>>.  Exponent range and subnormals are left out: every value  *)
(* computed from prices lies far inside the normal range.                  *)
(* An intermediate number that is used more than once is bound as the      *)
(* element of a one-element set, so that it is computed once where it is   *)
(* bound: CHOOSE r \in {F(x) : x \in {e}} : TRUE is F(e).                   *)
(***************************************************************************)
LimbBase == 2^15

RECURSIVE BNorm(_)
BNorm(a) ==
    IF a # <<>> /\ a[Len(a)] = 0 THEN BNorm(SubSeq(a, 1, Len(a) - 1)) ELSE a

RECURSIVE BFromInt(_)
BFromInt(n) ==
    IF n = 0 THEN <<>> ELSE <<n % LimbBase>> \o BFromInt(n \div LimbBase)

Limb(a, i) == IF i <= Len(a) THEN a[i] ELSE 0

RECURSIVE BAddFrom(_, _, _, _)
BAddFrom(a, b, i, carry) ==
    IF i > Len(a) /\ i > Len(b)
    THEN IF carry = 0 THEN <<>> ELSE <<carry>>
    ELSE LET t == Limb(a, i) + Limb(b, i) + carry
         IN  <<t % LimbBase>> \o BAddFrom(a, b, i + 1, t \div LimbBase)

BAdd(a, b) == BAddFrom(a, b, 1, 0)

\* a - b for a >= b
RECURSIVE BSubFrom(_, _, _, _)
BSubFrom(a, b, i, borrow) ==
    IF i > Len(a) THEN <<>>
    ELSE LET t == Limb(a, i) - Limb(b, i) - borrow
         IN  IF t < 0 THEN <<t + LimbBase>> \o BSubFrom(a, b, i + 1, 1)
             ELSE <<t>> \o BSubFrom(a, b, i + 1, 0)

BSub(a, b) == BNorm(BSubFrom(a, b, 1, 0))

RECURSIVE BCmpFrom(_, _, _)
BCmpFrom(a, b, i) ==
    IF i = 0 THEN 0
    ELSE IF a[i] < b[i] THEN -1
    ELSE IF a[i] > b[i] THEN 1
    ELSE BCmpFrom(a, b, i - 1)

\* -1, 0 or 1 as a < b, a = b or a > b
BCmp(a, b) ==
    IF Len(a) < Len(b) THEN -1
    ELSE IF Len(a) > Len(b) THEN 1
    ELSE BCmpFrom(a, b, Len(a))

\* a * k for 0 <= k <= 2^15
RECURSIVE BMulSmallFrom(_, _, _, _)
BMulSmallFrom(a, k, i, carry) ==
    IF i > Len(a)
    THEN IF carry = 0 THEN <<>> ELSE <<carry>>
    ELSE LET t == a[i] * k + carry
         IN  <<t % LimbBase>> \o BMulSmallFrom(a, k, i + 1, t \div LimbBase)

BMulSmall(a, k) == BNorm(BMulSmallFrom(a, k, 1, 0))

RECURSIVE BMulFrom(_, _, _)
BMulFrom(a, b, j) ==
    IF j > Len(b) THEN <<>>
    ELSE LET rest == BMulFrom(a, b, j + 1)
         IN  BAdd(BMulSmall(a, b[j]), IF rest = <<>> THEN <<>> ELSE <<0>> \o rest)

BMul(a, b) == BMulFrom(a, b, 1)

RECURSIVE SmallBits(_)
SmallBits(n) == IF n = 0 THEN 0 ELSE 1 + SmallBits(n \div 2)

\* the number of binary digits of a
BBits(a) == IF a = <<>> THEN 0 ELSE 15 * (Len(a) - 1) + SmallBits(a[Len(a)])

\* a * 2^n
BShl(a, n) ==
    IF a = <<>> THEN <<>>
    ELSE [i \in 1..(n \div 15) |-> 0] \o BMulSmall(a, 2^(n % 15))

\* a \div k for 0 < k <= 2^15, from the most significant limb down
RECURSIVE BDivSmallFrom(_, _, _, _)
BDivSmallFrom(a, k, i, rem) ==
    IF i = 0 THEN <<>>
    ELSE CHOOSE r \in {BDivSmallFrom(a, k, i - 1, t % k) \o <<t \div k>> :
                       t \in {rem * LimbBase + a[i]}} : TRUE

\* a \div 2^n
BShr(a, n) ==
    IF n \div 15 >= Len(a) THEN <<>>
    ELSE LET high == SubSeq(a, n \div 15 + 1, Len(a))
         IN  BNorm(BDivSmallFrom(high, 2^(n % 15), Len(high), 0))

\* the largest d in lo..hi with b * d <= cur, found by bisection
RECURSIVE QuotientLimb(_, _, _, _)
QuotientLimb(cur, b, lo, hi) ==
    IF lo >= hi THEN lo
    ELSE LET mid == (lo + hi + 1) \div 2
         IN  IF BCmp(BMulSmall(b, mid), cur) <= 0
             THEN QuotientLimb(cur, b, mid, hi)
             ELSE QuotientLimb(cur, b, lo, mid - 1)

\* the limb d of the quotient joined to the limbs hq found before it
BDivModPut(cur, b, hq, d) ==
    [q |-> BNorm(<<d>> \o hq), r |-> BSub(cur, BMulSmall(b, d))]

\* the next limb of the quotient, bracketed by top, the leading limbs of cur,
\* and the leading limb of b
BDivModLimb(cur, b, hq, top) ==
    BDivModPut(cur, b, hq,
               QuotientLimb(cur, b, top \div (b[Len(b)] + 1),
                            Min((top + 1) \div b[Len(b)], LimbBase - 1)))

\* one step of the long division: the remainder so far h.r takes the limb a1
BDivModStep(a1, b, hq, cur) ==
    BDivModLimb(cur, b, hq, Limb(cur, Len(b) + 1) * LimbBase + Limb(cur, Len(b)))

\* a1 and the division h of the limbs above it
BDivModDown(a1, b, h) == BDivModStep(a1, b, h.q, BNorm(<<a1>> \o h.r))

\* [q, r] with a = q * b + r and r < b, for b > 0: long division limb by limb
RECURSIVE BDivMod(_, _)
BDivMod(a, b) ==
    IF a = <<>> THEN [q |-> <<>>, r |-> <<>>]
    ELSE CHOOSE r \in {BDivModDown(a[1], b, h) : h \in {BDivMod(Tail(a), b)}} : TRUE

\* [m, e] for q * 2^e with 53 or, after rounding up to 2^53, 54 digits
FNormal(q, e) ==
    IF BBits(q) = 54 THEN [m |-> BShr(q, 1), e |-> e + 1] ELSE [m |-> q, e |-> e]

\* q rounded by c, the comparison of the digits cut off with one half
FRoundUp(e, q, c) ==
    FNormal(IF c > 0 \/ (c = 0 /\ q[1] % 2 = 1) THEN BAdd(q, <<1>>) ELSE q, e)

\* n with its last sh digits cut off, q = n \div 2^sh
FRoundCut(n, e, sh, q) ==
    FRoundUp(e + sh, q, BCmp(BSub(n, BShl(q, sh)), BShl(<<1>>, sh - 1)))

FRoundBits(n, e, bits) ==
    IF bits <= 53
    THEN [m |-> BShl(n, 53 - bits), e |-> IF bits = 0 THEN 0 ELSE e - (53 - bits)]
    ELSE CHOOSE r \in {FRoundCut(n, e, bits - 53, q) :
                       q \in {BShr(n, bits - 53)}} : TRUE

\* the double nearest to n * 2^e, ties to even
FRound(n, e) ==
    CHOOSE r \in {FRoundBits(x, e, BBits(x)) : x \in {n}} : TRUE

\* float(n) for an integer 0 <= n < 2^31
FInt(n) == FRound(BFromInt(n), 0)

FIsZero(a) == a.m = <<>>

\* -1, 0 or 1 as a < b, a = b or a > b, for doubles a, b >= 0
FCmp(a, b) ==
    IF FIsZero(a) THEN (IF FIsZero(b) THEN 0 ELSE -1)
    ELSE IF FIsZero(b) THEN 1
    ELSE IF a.e < b.e THEN -1
    ELSE IF a.e > b.e THEN 1
    ELSE BCmp(a.m, b.m)

FMul(a, b) ==
    IF FIsZero(a) THEN a
    ELSE IF FIsZero(b) THEN b
    ELSE FRound(BMul(a.m, b.m), a.e + b.e)

\* a - b for doubles a >= b >= 0
FSub(a, b) ==
    IF FIsZero(b) \/ FIsZero(a) THEN a
    ELSE FRound(BSub(BShl(a.m, a.e - b.e), b.m), b.e)

\* the quotient d.q with a sticky digit for the remainder d.r
FSticky(d, e) ==
    FRound(BAdd(BAdd(d.q, d.q), IF d.r = <<>> THEN <<>> ELSE <<1>>), e)

\* a / b for doubles a >= 0, b > 0: at least 57 binary digits of the quotient
\* and a sticky digit for the remainder; the common factor 2^7 gives the
\* divisor a full leading limb, which keeps QuotientLimb to a few steps
FDiv(a, b) ==
    IF FIsZero(a) \/ FIsZero(b) THEN a
    ELSE CHOOSE r \in {FSticky(d, a.e - b.e - 58) :
                       d \in {BDivMod(BShl(a.m, 64), BShl(b.m, 7))}} : TRUE

FDecSticky(a, den, q) ==
    FRound(BAdd(BAdd(q, q), IF BMulSmall(q, den) = a THEN <<>> ELSE <<1>>), -76)

FDecOf(a, den) ==
    CHOOSE r \in {FDecSticky(a, den, q) :
                  q \in {BNorm(BDivSmallFrom(a, den, Len(a), 0))}} : TRUE

\* the double nearest to num / den for integers 0 <= num < 2^31 and
\* 0 < den <= 2^15: a decimal literal (0.995 = FDec(995, 1000)) or a price
\* quoted in cents (FDec(cents, 100))
FDec(num, den) ==
    CHOOSE r \in {FDecOf(a, den) : a \in {BShl(BFromInt(num), 75)}} : TRUE

(***************************************************************************)
(* signal_engine.calculate_stop_loss as the Python floats compute it, for  *)
(* a table whose lows are known and a price, lows and sma_50 that are the  *)
(* doubles nearest to their values in cents.                               *)
(***************************************************************************)
F64_0_995 == FDec(995, 1000)

F64_0_99 == FDec(99, 100)

F64_0_97 == FDec(97, 100)

F64_0_90 == FDec(90, 100)

F64_0_03 == FDec(3, 100)

F64_0_10 == FDec(10, 100)

F64_1_20 == FDec(120, 100)

F64_1_15 == FDec(115, 100)

\* max(a, b) of Python
FMax(a, b) == IF FCmp(b, a) > 0 THEN b ELSE a

\* the stop before the risk limits, from the lowest low and sma_50 in cents
StopLevelF64(phase, low, sma_50) ==
    IF phase = 2
    THEN FMax(FMul(FDec(low, 100), F64_0_995),
              IF sma_50 > 0 THEN FMul(FDec(sma_50, 100), F64_0_99)
              ELSE FMul(FDec(low, 100), F64_0_995))
    ELSE FMul(FDec(low, 100), F64_0_99)

\* the risk limits on risk_pct = (current_price - stop_loss) / current_price,
\* which is positive only for a stop below the price
StopLimitsF64(phase, price, stop_loss, below, risk_pct) ==
    IF phase = 2 /\ (~below \/ FCmp(risk_pct, F64_0_03) < 0)
    THEN FMul(price, F64_0_97)
    ELSE IF below /\ FCmp(risk_pct, F64_0_10) > 0
    THEN FMul(price, F64_0_90)
    ELSE stop_loss

StopRiskF64(phase, price, stop_loss) ==
    StopLimitsF64(phase, price, stop_loss, FCmp(stop_loss, price) < 0,
                  FDiv(FSub(price, stop_loss), price))

StopLowF64(phase, price_data, window) ==
    IF BarCount(price_data) >= window
    THEN SeqMin(ILocLast(price_data.Low, window))
    ELSE SeqMin(price_data.Low)

calculate_stop_loss_f64(price_data, current_price, phase_info, phase) ==
    StopRiskF64(phase, FDec(current_price, 100),
                StopLevelF64(phase,
                             StopLowF64(phase, price_data,
                                        IF phase = 2 THEN 10 ELSE 30),
                             Get(phase_info, "sma_50", 0)))

\* reward_amount / risk_amount for the doubles price, stop_loss and
\* reward_target
RatioF64(price, stop_loss, reward_target) ==
    FDiv(FSub(reward_target, price), FSub(price, stop_loss))

\* rr_ratio = reward_amount / risk_amount of score_buy_signal in Python floats,
\* for a stop below the price and a reward target above it
rr_ratio_f64(phase, current_price, stop_loss_f64, breakout_info, sma_50) ==
    RatioF64(FDec(current_price, 100), stop_loss_f64,
             IF phase = 2 THEN FMul(FDec(current_price, 100), F64_1_20)
             ELSE IF breakout_info.is_breakout
             THEN FMul(FDec(breakout_info.breakout_level.val, 100), F64_1_15)
             ELSE FMul(FDec(sma_50, 100), F64_1_15))

(***************************************************************************)
(* phase_indicators.find_base_high / find_pivot_high / detect_breakout     *)
(***************************************************************************)
find_base_high(prices, window) ==
    IF Len(prices) < window THEN None
    ELSE Some(SeqMax(ILocLast(prices, window)))

find_pivot_high(prices, window) ==
    IF Len(prices) < window THEN None
    ELSE Some(SeqMax(ILocLast(prices, window)))

\* Python truth value of an Optional[float]: None and 0.0 are false
Truthy(opt) == ~opt.none /\ opt.val # 0

NoBreakout ==
    [raised |-> "no", is_breakout |-> FALSE, breakout_level |-> None,
     breakout_type |-> "None"]

Breakout(level, type) ==
    [raised |-> "no", is_breakout |-> TRUE, breakout_level |-> Some(level),
     breakout_type |-> type]

\* elif pivot_high and current_price > pivot_high and pivot_high < base_high:
\* the last comparison is float < None when base_high is None, which raises
PivotTest(pivot_high, base_high, current_price) ==
    IF ~Truthy(pivot_high) THEN "false"
    ELSE IF ~(current_price > pivot_high.val) THEN "false"
    ELSE IF base_high.none THEN "TypeError"
    ELSE IF pivot_high.val < base_high.val THEN "true"
    ELSE "false"

\* elif sma_50 and current_price > sma_50: if close.iloc[-2] < sma_50 < current_price
\* close.iloc[-2] of a series of fewer than 2 bars raises
SmaCrossBranch(close, sma_50, current_price) ==
    IF sma_50 # 0 /\ current_price > sma_50
    THEN IF Len(close) < 2 THEN Raise("IndexError")
         ELSE IF close[Len(close) - 1] < sma_50 /\ sma_50 < current_price
         THEN Breakout(sma_50, "50 SMA Breakout")
         ELSE NoBreakout
    ELSE NoBreakout

\* detect_breakout reporting a base breakout for a price at the base high
detect_breakout_at_level(price_data, current_price, phase_info) ==
    LET close      == price_data.Close
        base_high  == find_base_high(close, 60)
        pivot_high == find_pivot_high(close, 20)
        sma_50     == Get(phase_info, "sma_50", 0)
        pivot      == PivotTest(pivot_high, base_high, current_price)
    IN  IF phase_info.phase \notin {1, 2} THEN NoBreakout
        ELSE IF Truthy(base_high) /\ current_price >= base_high.val
        THEN Breakout(base_high.val, "Base Breakout")
        ELSE IF pivot = "TypeError" THEN Raise("TypeError")
        ELSE IF pivot = "true" THEN Breakout(pivot_high.val, "Pivot Breakout")
        ELSE SmaCrossBranch(close, sma_50, current_price)

detect_breakout(price_data, current_price, phase_info) ==
    LET close      == price_data.Close
        base_high  == find_base_high(close, 60)
        pivot_high == find_pivot_high(close, 20)
        sma_50     == Get(phase_info, "sma_50", 0)
        pivot      == PivotTest(pivot_high, base_high, current_price)
    IN  IF phase_info.phase \notin {1, 2} THEN NoBreakout
        ELSE IF Truthy(base_high) /\ current_price > base_high.val
        THEN Breakout(base_high.val, "Base Breakout")
        ELSE IF pivot = "TypeError" THEN Raise("TypeError")
        ELSE IF pivot = "true" THEN Breakout(pivot_high.val, "Pivot Breakout")
        ELSE SmaCrossBranch(close, sma_50, current_price)

(***************************************************************************)
(* phase_indicators.calculate_slope / calculate_rs_slope                   *)
(* The result is in 1/SlopeScale percent per bar.                          *)
(***************************************************************************)
RECURSIVE GCD(_, _)
GCD(a, b) == IF b = 0 THEN a ELSE GCD(b, a % b)

\* series.dropna()
DropNa(s) == SelectSeq(s, LAMBDA v : v # NaN)

\* series.isna().all() (true of the empty series)
AllNa(s) == \A i \in 1..Len(s) : s[i] = NaN

RECURSIVE SlopeNumRange(_, _, _)
\* sum over x = lo-1 .. hi-1 of (2x - (n-1)) * y[x]: twice sum (x - mean(x)) * y
SlopeNumRange(y, lo, hi) ==
    IF lo > hi THEN 0
    ELSE IF lo = hi THEN (2 * (lo - 1) - (Len(y) - 1)) * y[lo]
    ELSE LET mid == (lo + hi) \div 2
         IN  SlopeNumRange(y, lo, mid) + SlopeNumRange(y, mid + 1, hi)

\* np.polyfit(x, y, 1)[0] / np.mean(y) * 100 for x = 0..n-1:
\*   slope = (A2/2) / (n(n^2-1)/12),  mean = B/n,  slope_pct = 600 A2 / ((n^2-1) B)
SlopePct(y) ==
    LET n  == Len(y)
        A2 == SlopeNumRange(y, 1, Len(y))
        B  == SeqSum(y)
        g  == GCD(600, n * n - 1)
    IN  IF B = 0 THEN 0
        ELSE MulDiv2Floor(Sign(B) * A2, (600 \div g) * 10000, SlopeScale \div 10000,
                          ((n * n - 1) \div g) * Abs(B))

\* calculate_slope without the test of the series' length
calculate_slope_of_short_series(series, periods) ==
    IF AllNa(series) THEN 0
    ELSE LET recent == DropNa(ILocLast(series, periods))
         IN  IF Len(recent) < 2 THEN 0 ELSE SlopePct(recent)

calculate_slope(series, periods) ==
    IF Len(series) < periods \/ AllNa(series) THEN 0
    ELSE LET recent == DropNa(ILocLast(series, periods))
         IN  IF Len(recent) < 2 THEN 0 ELSE SlopePct(recent)

calculate_rs_slope(rs_series, periods) == calculate_slope(rs_series, periods)

(***************************************************************************)
(* phase_indicators.calculate_volume_ratio: <<current, average>> as the     *)
(* fraction current / avg, <<1, 1>> for the neutral 1.0                    *)
(***************************************************************************)
calculate_volume_ratio(volumes, period) ==
    IF Len(volumes) < period + 1 THEN <<1, 1>>
    ELSE LET current == volumes[Len(volumes)]
             window  == SubSeq(volumes, Len(volumes) - period, Len(volumes) - 1)
         IN  IF SeqSum(window) = 0 THEN <<1, 1>>
             ELSE <<current * period, SeqSum(window)>>

(***************************************************************************)
(* signal_engine.score_buy_signal                                          *)
(* Sub-scores in 1/PT point.  phase_info: sma_50, sma_200 in cents,        *)
(* slope_50, slope_200 in 1/10000 %, distance_from_50sma and               *)
(* distance_from_200sma in 1/100 %.  Each part yields its score and the    *)
(* reasons it appends, in order.                                           *)
(***************************************************************************)
Clamp(lo, x, hi) == Min(hi, Max(lo, x))

\* 1. trend structure, phase 2: distance and slope components
Stage2Quality(phase_info) ==
    LET slope_50     == Get(phase_info, "slope_50", 0)
        slope_200    == Get(phase_info, "slope_200", 0)
        distance_50  == Get(phase_info, "distance_from_50sma", 0)
        distance_200 == Get(phase_info, "distance_from_200sma", 0)
        \* (distance_50 / 15.0 * 10) + (distance_200 / 20.0 * 5)
        distance_component ==
            Clamp(0, 160 * distance_50 + 60 * distance_200, 15 * PT)
        \* (slope_50 / 0.08 * 10) + (slope_200 / 0.05 * 5)
        slope_component ==
            Clamp(0, 300 * slope_50 + 240 * slope_200, 15 * PT)
        r1 == IF distance_50 >= 1000 THEN "Strong Stage 2"
              ELSE IF distance_50 >= 300 THEN "Good Stage 2"
              ELSE IF distance_50 >= 0 THEN "Weak Stage 2"
              ELSE "Very weak Stage 2"
        r2 == IF slope_50 > 500 THEN "SMAs rising strongly"
              ELSE IF slope_50 > 200 THEN "SMAs rising moderately"
              ELSE IF slope_50 > 0 THEN "SMAs rising weakly"
              ELSE "SMAs flat or declining"
    IN  [score |-> distance_component + slope_component, reasons |-> <<r1, r2>>]

\* 1. trend structure, phase 1: proximity and golden-cross setup
TransitionScore(phase_info) ==
    LET sma_50      == Get(phase_info, "sma_50", 0)
        sma_200     == Get(phase_info, "sma_200", 0)
        slope_50    == Get(phase_info, "slope_50", 0)
        distance_50 == Get(phase_info, "distance_from_50sma", 0)
        \* ((distance_50 + 10) / 15.0) * 12
        proximity_score == Clamp(0, 192 * (distance_50 + 1000), 12 * PT)
        \* slope_factor = min(1.0, max(0, slope_50 / 0.03)), as slope_f / 300
        slope_f == Clamp(0, slope_50, 300)
        \* sma_ratio * 200 * slope_factor, sma_ratio = (sma_50 - sma_200) / sma_200
        sma_setup_score ==
            IF sma_200 > 0 /\ sma_50 > sma_200
            THEN Min(13 * PT, MulDiv((sma_50 - sma_200) * slope_f, 16000, sma_200))
            ELSE 0
        r1 == IF distance_50 >= -200 THEN "Near 50 SMA breakout"
              ELSE IF distance_50 >= -500 THEN "Approaching 50 SMA"
              ELSE "Building base"
        r2 == IF sma_50 > sma_200 /\ slope_50 > 200 THEN "Strong golden cross setup"
              ELSE IF sma_50 > sma_200 THEN "Golden cross present"
              ELSE IF 100 * sma_50 > 98 * sma_200 THEN "Approaching golden cross"
              ELSE "50 SMA below 200 SMA"
    IN  [score |-> proximity_score + sma_setup_score, reasons |-> <<r1, r2>>]

\* TrendPart granting 15 points for a breakout
TrendPartBonus15(phase_info, breakout_info) ==
    LET phase       == phase_info.phase
        distance_50 == Get(phase_info, "distance_from_50sma", 0)
        base  == IF phase = 2 THEN Stage2Quality(phase_info)
                 ELSE TransitionScore(phase_info)
        bonus == IF breakout_info.is_breakout THEN 15 * PT ELSE 0
        rb    == IF breakout_info.is_breakout THEN <<"Breakout">> ELSE <<>>
        pen   == IF distance_50 > 3000 THEN 10 * PT
                 ELSE IF distance_50 > 2000 THEN 5 * PT ELSE 0
        rp    == IF distance_50 > 3000 THEN <<"Over-extended">>
                 ELSE IF distance_50 > 2000 THEN <<"Moderately extended above 50 SMA">>
                 ELSE <<>>
        trend_score == base.score + bonus - pen
    IN  [score |-> Min(trend_score, 50 * PT), reasons |-> base.reasons \o rb \o rp]

TrendPart(phase_info, breakout_info) ==
    LET phase       == phase_info.phase
        distance_50 == Get(phase_info, "distance_from_50sma", 0)
        base  == IF phase = 2 THEN Stage2Quality(phase_info)
                 ELSE TransitionScore(phase_info)
        bonus == IF breakout_info.is_breakout THEN 10 * PT ELSE 0
        rb    == IF breakout_info.is_breakout THEN <<"Breakout">> ELSE <<>>
        pen   == IF distance_50 > 3000 THEN 10 * PT
                 ELSE IF distance_50 > 2000 THEN 5 * PT ELSE 0
        rp    == IF distance_50 > 3000 THEN <<"Over-extended">>
                 ELSE IF distance_50 > 2000 THEN <<"Moderately extended above 50 SMA">>
                 ELSE <<>>
        trend_score == base.score + bonus - pen
    IN  [score |-> Min(trend_score, 50 * PT), reasons |-> base.reasons \o rb \o rp]

\* 2. fundamentals: an Optional dict, its values in 1/10 percent
DictTruthy(fundamentals) == ~fundamentals.none /\ DOMAIN fundamentals.val # {}

DictGet(fundamentals, key) ==
    IF key \in DOMAIN fundamentals.val THEN Some(fundamentals.val[key]) ELSE None

\* ((revenue_yoy + 20) / 60.0) * 7.5 = (revenue_yoy + 20) / 8
\* RevenueScore with the growth rate's sign lost
RevenueScoreInverted(revenue_yoy) ==
    IF revenue_yoy.none THEN (15 * PT) \div 4
    ELSE Clamp(0, 300 * (200 - revenue_yoy.val), (15 * PT) \div 2)

RevenueScore(revenue_yoy) ==
    IF revenue_yoy.none THEN (15 * PT) \div 4
    ELSE Clamp(0, 300 * (revenue_yoy.val + 200), (15 * PT) \div 2)

\* ((eps_yoy + 20) / 80.0) * 7.5 = (eps_yoy + 20) * 3 / 32
EpsScore(eps_yoy) ==
    IF eps_yoy.none THEN (15 * PT) \div 4
    ELSE Clamp(0, 225 * (eps_yoy.val + 200), (15 * PT) \div 2)

GrowthReason(revenue_yoy, eps_yoy) ==
    IF ~revenue_yoy.none /\ ~eps_yoy.none
    THEN LET r == revenue_yoy.val
             e == eps_yoy.val
         IN  IF r > 250 /\ e > 400 THEN "Accelerating growth"
             ELSE IF r > 100 /\ e > 150 THEN "Strong growth"
             ELSE IF r > 0 /\ e > 0 THEN "Positive growth"
             ELSE IF r > -50 /\ e > -50 THEN "Growth stalling"
             ELSE "Declining"
    ELSE IF ~revenue_yoy.none THEN "Revenue trend"
    ELSE IF ~eps_yoy.none THEN "EPS trend"
    ELSE "Growth data unavailable (neutral score)"

\* 10 - (inv_qoq_change / 20.0) * 10
InventoryScore(inv_qoq_change) ==
    IF inv_qoq_change.none THEN 5 * PT
    ELSE Clamp(0, 10 * PT - (PT \div 20) * inv_qoq_change.val, 10 * PT)

\* InventoryReason reporting a draw from -5% on
InventoryReasonFromMinusFive(inv_qoq_change) ==
    IF inv_qoq_change.none THEN <<>>
    ELSE IF inv_qoq_change.val <= -50 THEN <<"Inventory drawing">>
    ELSE IF inv_qoq_change.val < 50 THEN <<"Inventory neutral">>
    ELSE IF inv_qoq_change.val < 150 THEN <<"Inventory building">>
    ELSE <<"Inventory building rapidly">>

InventoryReason(inv_qoq_change) ==
    IF inv_qoq_change.none THEN <<>>
    ELSE IF inv_qoq_change.val < -50 THEN <<"Inventory drawing">>
    ELSE IF inv_qoq_change.val < 50 THEN <<"Inventory neutral">>
    ELSE IF inv_qoq_change.val < 150 THEN <<"Inventory building">>
    ELSE <<"Inventory building rapidly">>

\* FundamentalsPart entering the scoring for every map, the empty one included
FundamentalsPartOfAnyMap(fundamentals) ==
    IF ~fundamentals.none
    THEN LET revenue_yoy    == DictGet(fundamentals, "revenue_yoy_change")
             eps_yoy        == DictGet(fundamentals, "eps_yoy_change")
             inv_qoq_change == DictGet(fundamentals, "inventory_qoq_change")
         IN  [score   |-> RevenueScore(revenue_yoy) + EpsScore(eps_yoy)
                          + InventoryScore(inv_qoq_change) + 5 * PT,
              reasons |-> <<GrowthReason(revenue_yoy, eps_yoy)>>
                          \o InventoryReason(inv_qoq_change)]
    ELSE [score |-> 15 * PT, reasons |-> <<"No fundamental data available">>]

FundamentalsPart(fundamentals) ==
    IF DictTruthy(fundamentals)
    THEN LET revenue_yoy    == DictGet(fundamentals, "revenue_yoy_change")
             eps_yoy        == DictGet(fundamentals, "eps_yoy_change")
             inv_qoq_change == DictGet(fundamentals, "inventory_qoq_change")
         IN  [score   |-> RevenueScore(revenue_yoy) + EpsScore(eps_yoy)
                          + InventoryScore(inv_qoq_change) + 5 * PT,
              reasons |-> <<GrowthReason(revenue_yoy, eps_yoy)>>
                          \o InventoryReason(inv_qoq_change)]
    ELSE [score |-> 15 * PT, reasons |-> <<"No fundamental data available">>]

\* 3. volume behaviour: up-day against down-day volume over the last 5 bars
RECURSIVE DayVolume(_, _, _, _)
\* <<days, volume>> over the loop's steps i..5 whose price change is up / not up
DayVolume(recent_prices, recent_volume, up, i) ==
    IF i >= Len(recent_prices) THEN <<0, 0>>
    ELSE LET rest   == DayVolume(recent_prices, recent_volume, up, i + 1)
             is_up  == recent_prices[i + 1] - recent_prices[i] > 0
         IN  IF is_up = up THEN <<rest[1] + 1, rest[2] + recent_volume[i]>>
             ELSE rest

VolumePart(price_data) ==
    IF "Volume" \in DOMAIN price_data /\ BarCount(price_data) >= 30
    THEN LET recent_prices == ILocLast(price_data.Close, 6)
             recent_volume == ILocLast(price_data.Volume, 5)
             ups   == DayVolume(recent_prices, recent_volume, TRUE, 1)
             downs == DayVolume(recent_prices, recent_volume, FALSE, 1)
             \* avg_vol_down > 0
             down_pos == downs[1] > 0 /\ downs[2] > 0
             \* vol_ratio = avg_vol_up / avg_vol_down as num / den
             num == IF ~down_pos THEN 1
                    ELSE IF ups[1] > 0 THEN ups[2] * downs[1] ELSE 0
             den == IF ~down_pos THEN 1
                    ELSE IF ups[1] > 0 THEN ups[1] * downs[2] ELSE 1
             \* 5 + (vol_ratio - 1.0) * 10
             volume_score ==
                 IF num >= 2 * den THEN 10 * PT
                 ELSE Clamp(0, MulDiv(num, 10 * PT, den) - 5 * PT, 10 * PT)
             r == IF 10 * num >= 13 * den THEN "Volume heavier on up days"
                  ELSE IF 10 * num >= 11 * den THEN "Volume slightly heavier on up days"
                  ELSE IF 10 * num >= 9 * den THEN "Volume pattern neutral"
                  ELSE "Volume heavier on down days"
         IN  [score |-> volume_score, reasons |-> <<r>>]
    ELSE [score |-> 5 * PT, reasons |-> <<>>]

\* 4. relative strength: 20-bar RS slope
RSPart(rs_series) ==
    IF Len(rs_series) >= 20 /\ ~AllNa(rs_series)
    THEN LET rs_slope == calculate_rs_slope(rs_series, 20)
             \* ((rs_slope + 1.0) / 5.0) * 10
             rs_score == Clamp(0, 2 * PT + MulDiv(rs_slope, 2 * PT, SlopeScale),
                               10 * PT)
             r == IF rs_slope >= 3 * SlopeScale THEN "Excellent RS"
                  ELSE IF 2 * rs_slope >= 3 * SlopeScale THEN "Strong RS"
                  ELSE IF 2 * rs_slope >= SlopeScale THEN "Good RS"
                  ELSE IF rs_slope >= 0 THEN "Moderate RS"
                  ELSE IF 2 * rs_slope >= -SlopeScale THEN "Weak RS"
                  ELSE "Negative RS"
         IN  [score |-> rs_score, reasons |-> <<r>>]
    ELSE [score |-> 5 * PT, reasons |-> <<"RS data insufficient">>]

\* 6. risk/reward; stop_loss, risk and reward in 1/1000 cent
\* The amounts are integers below 2^31, so the exact ratio differs from a
\* threshold k/d by far more than the rounding of the doubles unless it equals
\* it; on equality the comparison is the one the doubles make.
RRPart(phase, current_price, stop_loss, breakout_info, sma_50, stop_loss_f64) ==
    LET risk_amount   == IF stop_loss # 0 THEN current_price * MoneyScale - stop_loss
                         ELSE 0
        reward_target == IF phase = 2 THEN current_price * 1200
                         ELSE IF breakout_info.is_breakout
                         THEN breakout_info.breakout_level.val * 1150
                         ELSE sma_50 * 1150
        reward_amount == reward_target - current_price * MoneyScale
        \* rr_ratio >= k / d
        RatioAtLeast(k, d) ==
            IF d * reward_amount # k * risk_amount
            THEN d * reward_amount > k * risk_amount
            ELSE FCmp(rr_ratio_f64(phase, current_price, stop_loss_f64,
                                   breakout_info, sma_50), FDec(k, d)) >= 0
    IN  IF risk_amount > 0
        THEN LET \* (rr_ratio - 1.0) * 2.5, rr_ratio = reward_amount / risk_amount
                 rr_score ==
                     IF reward_amount <= risk_amount THEN 0
                     ELSE IF reward_amount >= 3 * risk_amount THEN 5 * PT
                     ELSE MulDiv(reward_amount - risk_amount, (5 * PT) \div 2,
                                 risk_amount)
                 r == IF RatioAtLeast(3, 1) THEN "Excellent R/R"
                      ELSE IF RatioAtLeast(2, 1) THEN "Good R/R"
                      ELSE IF RatioAtLeast(3, 2) THEN "Acceptable R/R"
                      ELSE "Poor R/R"
             IN  [score |-> rr_score, reasons |-> <<r>>,
                  \* round(rr_ratio, 2), in 1/100
                  risk_reward_ratio |-> RoundDiv(reward_amount * 100, risk_amount)]
        ELSE [score |-> 0, reasons |-> <<>>, risk_reward_ratio |-> 0]

\* 7. entry quality
\* EntryPart with phase-2 bands that exclude their upper border
EntryPartStrictBands(phase, distance_50) ==
    LET \* 3 - (max(0, distance_50) / 10.0) * 3
        extension_score == Max(0, 3 * PT - 72 * Max(0, distance_50))
        proximity_score ==
            IF phase = 2
            THEN \* 2 - (max(0, distance_50) / 15.0) * 2
                 Max(0, 2 * PT - 32 * Max(0, distance_50))
            ELSE \* 2 - (abs(distance_50 - 1.0) / 6.0) * 2
                 Max(0, 2 * PT - 80 * Abs(distance_50 - 100))
        r == IF phase = 2
             THEN IF distance_50 < 300 THEN "Excellent entry zone"
                  ELSE IF distance_50 < 700 THEN "Good entry zone"
                  ELSE IF distance_50 < 1200 THEN "Moderate entry"
                  ELSE "Extended entry"
             ELSE IF distance_50 >= -100 /\ distance_50 <= 300
                  THEN "Excellent breakout zone"
                  ELSE IF distance_50 >= -400 /\ distance_50 <= 600
                  THEN "Good entry zone"
                  ELSE IF distance_50 >= -700 /\ distance_50 <= 900
                  THEN "Approaching entry zone"
                  ELSE "Outside ideal entry zone"
    IN  [score |-> extension_score + proximity_score, reasons |-> <<r>>]

EntryPart(phase, distance_50) ==
    LET \* 3 - (max(0, distance_50) / 10.0) * 3
        extension_score == Max(0, 3 * PT - 72 * Max(0, distance_50))
        proximity_score ==
            IF phase = 2
            THEN \* 2 - (max(0, distance_50) / 15.0) * 2
                 Max(0, 2 * PT - 32 * Max(0, distance_50))
            ELSE \* 2 - (abs(distance_50 - 1.0) / 6.0) * 2
                 Max(0, 2 * PT - 80 * Abs(distance_50 - 100))
        r == IF phase = 2
             THEN IF distance_50 <= 300 THEN "Excellent entry zone"
                  ELSE IF distance_50 <= 700 THEN "Good entry zone"
                  ELSE IF distance_50 <= 1200 THEN "Moderate entry"
                  ELSE "Extended entry"
             ELSE IF distance_50 >= -100 /\ distance_50 <= 300
                  THEN "Excellent breakout zone"
                  ELSE IF distance_50 >= -400 /\ distance_50 <= 600
                  THEN "Good entry zone"
                  ELSE IF distance_50 >= -700 /\ distance_50 <= 900
                  THEN "Approaching entry zone"
                  ELSE "Outside ideal entry zone"
    IN  [score |-> extension_score + proximity_score, reasons |-> <<r>>]

\* BuyPhaseRejected letting phase 3 through to the scoring
BuyPhaseRejectedLoose(phase) == phase \notin {1, 2, 3}

\* if phase not in [1, 2]
BuyPhaseRejected(phase) == phase \notin {1, 2}

\* final_score >= 60
IsBuy(final_score) == final_score >= 60 * PT

\* max(0, min(score, 110))
BuyFinalScore(score) == Max(0, Min(score, 110 * PT))

\* The returned score is in 1/10 point (round(final_score, 1)), stop_loss in cents
\* (round(stop_loss, 2)), risk_reward_ratio in 1/100; details keeps the sub-scores,
\* rs_score, rr_score and entry_score in 1/100 point as the code rounds them.
score_buy_signal(ticker, price_data, current_price, phase_info, rs_series, fundamentals) ==
    LET phase == phase_info.phase
    IN  IF BuyPhaseRejected(phase)
        THEN [raised |-> "no", ticker |-> ticker, is_buy |-> FALSE, score |-> 0,
              reason |-> "Wrong phase", details |-> <<>>]
        ELSE
        LET sma_50        == Get(phase_info, "sma_50", 0)
            distance_50   == Get(phase_info, "distance_from_50sma", 0)
            breakout_info == detect_breakout(price_data, current_price, phase_info)
        IN  IF Raised(breakout_info) THEN breakout_info
            ELSE
            LET trend  == TrendPart(phase_info, breakout_info)
                fund   == FundamentalsPart(fundamentals)
                volume == VolumePart(price_data)
                rs     == RSPart(rs_series)
                stop_loss == calculate_stop_loss(price_data, current_price,
                                                 phase_info, phase)
                rr     == RRPart(phase, current_price, stop_loss, breakout_info,
                                 sma_50,
                                 calculate_stop_loss_f64(price_data, current_price,
                                                         phase_info, phase))
                entry  == EntryPart(phase, distance_50)
                score  == trend.score + fund.score + volume.score + rs.score
                          + rr.score + entry.score
                final_score == BuyFinalScore(score)
            IN  [raised |-> "no",
                 ticker |-> ticker,
                 is_buy |-> IsBuy(final_score),
                 score  |-> RoundDiv(final_score, PT \div 10),
                 phase  |-> phase,
                 breakout_price |-> IF breakout_info.is_breakout
                                    THEN breakout_info.breakout_level ELSE None,
                 stop_loss |-> IF stop_loss # 0
                               THEN Some(RoundDiv(stop_loss, MoneyScale)) ELSE None,
                 risk_reward_ratio |-> rr.risk_reward_ratio,
                 entry_quality |-> IF entry.score >= 4 * PT THEN "Good"
                                   ELSE IF entry.score >= 2 * PT THEN "Extended"
                                   ELSE "Poor",
                 reasons |-> trend.reasons \o fund.reasons \o volume.reasons
                             \o rs.reasons \o rr.reasons \o entry.reasons,
                 details |-> [trend_score       |-> trend.score,
                              fundamental_score |-> fund.score,
                              volume_score      |-> volume.score,
                              rs_score          |-> RoundDiv(rs.score, PT \div 100),
                              stop_loss         |-> stop_loss,
                              risk_reward_ratio |-> rr.risk_reward_ratio,
                              rr_score          |-> RoundDiv(rr.score, PT \div 100),
                              entry_score       |-> RoundDiv(entry.score, PT \div 100)]
                             @@ (IF breakout_info.is_breakout
                                 THEN [breakout |-> breakout_info] ELSE <<>>)]

(***************************************************************************)
(* signal_engine.score_sell_signal                                         *)
(* Sub-scores in whole points; the returned score in 1/10 point.           *)
(***************************************************************************)
\* TransitionPoints blind to the caller's previous phase
TransitionPointsNoPrevious(phase, previous_phase) ==
    IF phase = 4 THEN 25 ELSE IF phase = 3 THEN 15 ELSE 0

\* phase transition / phase component of the breakdown score
TransitionPoints(phase, previous_phase) ==
    IF previous_phase = Some(2) /\ phase \in {3, 4} THEN 30
    ELSE IF phase = 4 THEN 25
    ELSE IF phase = 3 THEN 15
    ELSE 0

TransitionReason(phase, previous_phase) ==
    IF previous_phase = Some(2) /\ phase \in {3, 4} THEN <<"Phase transition">>
    ELSE IF phase = 4 THEN <<"In Phase 4 (Downtrend)">>
    ELSE IF phase = 3 THEN <<"In Phase 3 (Distribution)">>
    ELSE <<>>

\* pct_below = ((sma_50 - current_price) / sma_50) * 100 against 5 and 2
BelowSmaPoints(current_price, sma_50) ==
    IF current_price < sma_50
    THEN IF 100 * (sma_50 - current_price) > 5 * sma_50 THEN 20
         ELSE IF 100 * (sma_50 - current_price) > 2 * sma_50 THEN 15
         ELSE 10
    ELSE 0

BelowSmaReason(current_price, sma_50) ==
    IF current_price < sma_50
    THEN IF 100 * (sma_50 - current_price) > 5 * sma_50
         THEN <<"Broke below 50 SMA">>
         ELSE IF 100 * (sma_50 - current_price) > 2 * sma_50
         THEN <<"Below 50 SMA">>
         ELSE <<"Just below 50 SMA">>
    ELSE <<>>

BreakdownPart(phase, previous_phase, current_price, sma_50, slope_50) ==
    LET breakdown_score ==
            TransitionPoints(phase, previous_phase)
            + BelowSmaPoints(current_price, sma_50)
            + (IF slope_50 < 0 THEN 10 ELSE 0)
    IN  [score   |-> Min(breakdown_score, 60),
         reasons |-> TransitionReason(phase, previous_phase)
                     \o BelowSmaReason(current_price, sma_50)
                     \o (IF slope_50 < 0 THEN <<"50 SMA declining">> ELSE <<>>)]

\* SellVolumePart scoring the neutral ratio 1.0 when the volumes are not there
SellVolumePartNeutralDefault(price_data) ==
    LET volume_ratio == IF "Volume" \in DOMAIN price_data
                        THEN calculate_volume_ratio(price_data.Volume, 20)
                        ELSE <<1, 1>>
        num == volume_ratio[1]
        den == volume_ratio[2]
    IN  IF 2 * num >= 3 * den
        THEN [score |-> 30, reasons |-> <<"High volume breakdown">>]
        ELSE IF 10 * num >= 13 * den
        THEN [score |-> 20, reasons |-> <<"Elevated volume">>]
        ELSE IF 10 * num >= 11 * den
        THEN [score |-> 10, reasons |-> <<"Moderate volume">>]
        ELSE [score |-> 5, reasons |-> <<"Low volume breakdown">>]

SellVolumePart(price_data) ==
    IF "Volume" \in DOMAIN price_data /\ BarCount(price_data) >= 20
    THEN LET volume_ratio == calculate_volume_ratio(price_data.Volume, 20)
             num == volume_ratio[1]
             den == volume_ratio[2]
         IN  IF 2 * num >= 3 * den
             THEN [score |-> 30, reasons |-> <<"High volume breakdown">>]
             ELSE IF 10 * num >= 13 * den
             THEN [score |-> 20, reasons |-> <<"Elevated volume">>]
             ELSE IF 10 * num >= 11 * den
             THEN [score |-> 10, reasons |-> <<"Moderate volume">>]
             ELSE [score |-> 5, reasons |-> <<"Low volume breakdown">>]
    ELSE [score |-> 0, reasons |-> <<>>]

SellRSPart(rs_series) ==
    IF Len(rs_series) >= 15
    THEN LET rs_slope == calculate_rs_slope(rs_series, 15)
         IN  IF rs_slope < 0
             THEN IF rs_slope < -2 * SlopeScale
                  THEN [score |-> 10, reasons |-> <<"Sharp RS decline">>]
                  ELSE IF rs_slope < -SlopeScale
                  THEN [score |-> 7, reasons |-> <<"RS declining">>]
                  ELSE [score |-> 5, reasons |-> <<"Weak RS rollover">>]
             ELSE [score |-> 0, reasons |-> <<"RS still positive">>]
    ELSE [score |-> 0, reasons |-> <<>>]

FailedBreakoutPart(price_data, current_price, sma_50) ==
    LET close == price_data.Close
    IN  IF Len(close) >= 20 /\ SeqMax(ILocLast(close, 20)) > sma_50
           /\ current_price < sma_50
        THEN [score |-> 10,
              reasons |-> <<"Failed breakout - closed back inside base">>]
        ELSE [score |-> 0, reasons |-> <<>>]

\* SellPhaseRejected letting phase 2 through to the scoring
SellPhaseRejectedLoose(phase) == phase \notin {2, 3, 4}

\* if phase not in [3, 4]
SellPhaseRejected(phase) == phase \notin {3, 4}

\* SellFinalScore without the ceiling
SellFinalScoreNoCeiling(score) == Max(0, score)

\* max(0, min(score, 100))
SellFinalScore(score) == Max(0, Min(score, 100))

Severity(final_score) ==
    IF final_score >= 80 THEN "critical"
    ELSE IF final_score >= 70 THEN "high"
    ELSE IF final_score >= 60 THEN "medium"
    ELSE "low"

score_sell_signal(ticker, price_data, current_price, phase_info, rs_series, previous_phase) ==
    LET phase == phase_info.phase
    IN  IF SellPhaseRejected(phase)
        THEN [raised |-> "no", ticker |-> ticker, is_sell |-> FALSE, score |-> 0,
              severity |-> "none", reason |-> "No sell signal", details |-> <<>>]
        ELSE
        LET sma_50    == Get(phase_info, "sma_50", 0)
            slope_50  == Get(phase_info, "slope_50", 0)
            breakdown == BreakdownPart(phase, previous_phase, current_price,
                                       sma_50, slope_50)
            volume    == SellVolumePart(price_data)
            rs        == SellRSPart(rs_series)
            failed    == FailedBreakoutPart(price_data, current_price, sma_50)
            score     == breakdown.score + volume.score + rs.score + failed.score
            final_score == SellFinalScore(score)
        IN  [raised |-> "no",
             ticker |-> ticker,
             is_sell |-> final_score >= 60,
             score |-> 10 * final_score,
             severity |-> Severity(final_score),
             phase |-> phase,
             breakdown_level |-> IF current_price < sma_50 THEN Some(sma_50)
                                 ELSE None,
             reasons |-> breakdown.reasons \o volume.reasons \o rs.reasons
                         \o failed.reasons,
             details |-> [breakdown_score |-> breakdown.score,
                          volume_score    |-> volume.score,
                          rs_score        |-> rs.score]]

(***************************************************************************)
(* phase_indicators.calculate_sma                                          *)
(* The rolling mean is kept as the window's total (period times the mean), *)
(* NaN where the window is incomplete or holds a missing value.            *)
(***************************************************************************)
RECURSIVE RunningSum(_, _, _, _)
\* <<base + s[lo], base + s[lo] + s[lo+1], ...>> up to hi, by halves; a missing
\* value adds nothing
RunningSum(s, lo, hi, base) ==
    IF lo > hi THEN <<>>
    ELSE IF lo = hi THEN <<base + (IF s[lo] = NaN THEN 0 ELSE s[lo])>>
    ELSE LET mid  == (lo + hi) \div 2
             left == RunningSum(s, lo, mid, base)
         IN  left \o RunningSum(s, mid + 1, hi, left[Len(left)])

\* the sum of running[i-period+1 .. i] for a running sum
WindowOf(running, i, period) ==
    running[i] - (IF i = period THEN 0 ELSE running[i - period])

\* the number of missing values up to each index
RunningGaps(s) ==
    RunningSum([i \in 1..Len(s) |-> IF s[i] = NaN THEN 1 ELSE 0], 1, Len(s), 0)

\* calculate_sma with min_periods left at 1: a mean wherever the bar has a price
calculate_sma_min_periods_1(prices, period) ==
    [i \in 1..Len(prices) |->
        IF prices[i] = NaN THEN NaN
        ELSE LET sums == RunningSum(prices, 1, Len(prices), 0)
             IN  sums[i] - (IF i <= period THEN 0 ELSE sums[i - period])]

calculate_sma(prices, period) ==
    IF Len(prices) < period THEN [i \in 1..Len(prices) |-> NaN]
    ELSE LET sums == RunningSum(prices, 1, Len(prices), 0)
             gaps == RunningGaps(prices)
         IN  [i \in 1..Len(prices) |->
                IF i < period \/ WindowOf(gaps, i, period) > 0 THEN NaN
                ELSE WindowOf(sums, i, period)]

(***************************************************************************)
(* phase_indicators.detect_volatility_contraction                          *)
(* A window's standard deviation is sqrt(V / (w (w-1))) for                *)
(* V = w * sum d^2 - (sum d)^2, d the prices less the series' lowest one;  *)
(* it is kept as floor(sqrt(V) * 2^12), the common factor cancelling in    *)
(* the contraction ratio.                                                  *)
(***************************************************************************)
RECURSIVE ISqrtBetween(_, _, _)
\* the largest r in lo..hi with r * r <= v
ISqrtBetween(v, lo, hi) ==
    IF lo = hi THEN lo
    ELSE LET mid == (lo + hi + 1) \div 2
         IN  IF mid * mid <= v THEN ISqrtBetween(v, mid, hi)
             ELSE ISqrtBetween(v, lo, mid - 1)

RECURSIVE SqrtDigits(_, _, _)
\* bits more binary digits of a square root r with remainder rem
SqrtDigits(r, rem, bits) ==
    IF bits = 0 THEN r
    ELSE IF 4 * rem >= 4 * r + 1
         THEN SqrtDigits(2 * r + 1, 4 * rem - (4 * r + 1), bits - 1)
         ELSE SqrtDigits(2 * r, 4 * rem, bits - 1)

\* floor(sqrt(v) * 2^12) for 0 <= v < 2^30
SqrtScaled(v) ==
    LET r == ISqrtBetween(v, 0, 32767)
    IN  SqrtDigits(r, v - r * r, 12)

\* a*b/d rounded to the nearest integer, ties to even, any sign of a, b, d > 0
RoundMulDiv(a, b, d) ==
    LET qr  == MulDivQR(Abs(a), b, d)
        mag == IF 2 * qr[2] < d THEN qr[1]
               ELSE IF 2 * qr[2] > d THEN qr[1] + 1
               ELSE qr[1] + (qr[1] % 2)
    IN  Sign(a) * mag

\* V of the window ending at each index, NaN where the window is incomplete or
\* holds a missing value
RollingSpread(prices, window) ==
    LET n     == Len(prices)
        known == DropNa(prices)
        floor == IF known = <<>> THEN 0 ELSE SeqMin(known)
        d     == [i \in 1..n |-> IF prices[i] = NaN THEN 0 ELSE prices[i] - floor]
        sums  == RunningSum(d, 1, n, 0)
        sqs   == RunningSum([i \in 1..n |-> d[i] * d[i]], 1, n, 0)
        gaps  == RunningGaps(prices)
    IN  [i \in 1..n |->
           IF i < window \/ WindowOf(gaps, i, window) > 0 THEN NaN
           ELSE window * WindowOf(sqs, i, window)
                - WindowOf(sums, i, window) * WindowOf(sums, i, window)]

RECURSIVE RoundedStdBetween(_, _, _, _)
\* the largest c in lo..hi with (2c-1)^2 <= 4 v / (w (w-1)), lo = 0
RoundedStdBetween(v, w, lo, hi) ==
    IF lo = hi THEN lo
    ELSE LET mid == (lo + hi + 1) \div 2
         IN  IF (2 * mid - 1) * (2 * mid - 1) * w * (w - 1) <= 4 * v
             THEN RoundedStdBetween(v, w, mid, hi)
             ELSE RoundedStdBetween(v, w, lo, mid - 1)

NotContracting ==
    [is_contracting |-> FALSE, contraction_quality |-> 0, current_volatility |-> 0]

\* contraction_quality in 1/100 percent, contraction_ratio in 1/100,
\* current_volatility in cents
detect_volatility_contraction(prices, window) ==
    IF Len(prices) < window * 2 THEN NotContracting
    ELSE
    LET n           == Len(prices)
        spread      == RollingSpread(prices, window)
        \* prices.rolling(window=window).std()
        volatility  == [i \in 1..n |-> IF spread[i] = NaN THEN NaN
                                       ELSE SqrtScaled(spread[i])]
        current_vol == volatility[n]
        \* volatility.iloc[-window*2:-window].mean() = total / count
        earlier     == DropNa(SubSeq(volatility, n - 2 * window + 1, n - window))
        total       == SeqSum(earlier)
        count       == Len(earlier)
        \* avg_vol > 0 is false of a missing mean
        has_avg     == count > 0 /\ total > 0
        \* contraction_ratio = num / den, missing when current_vol is
        ratio_nan   == has_avg /\ current_vol = NaN
        num         == IF has_avg THEN current_vol * count ELSE 1
        den         == IF has_avg THEN total ELSE 1
    IN  IF Len(DropNa(volatility)) < 2 THEN NotContracting
        ELSE [is_contracting      |-> ~ratio_nan /\ MulDiv(num, 10, 7) < den,
              \* max(0, min(100, nan)) is 100
              contraction_quality |->
                  IF ratio_nan THEN 10000
                  ELSE IF num >= den THEN 0
                  ELSE RoundMulDiv(den - num, 10000, den),
              current_volatility  |->
                  IF current_vol = NaN THEN NaN
                  ELSE RoundedStdBetween(spread[n], window, 0, 1000),
              contraction_ratio   |->
                  IF ratio_nan THEN NaN ELSE RoundMulDiv(num, 100, den)]

(***************************************************************************)
(* phase_indicators.calculate_distance_from_sma / classify_phase           *)
(* An SMA value is its window total with the period; current_price in      *)
(* cents.  The returned record holds the rounded values: SMAs and 52-week  *)
(* extremes in cents, slopes in 1/10000 %, distances in 1/100 %.           *)
(***************************************************************************)
\* a float kept as num / den, or missing
Frac(num, den) == [nan |-> FALSE, num |-> num, den |-> den]

NaNFrac == [nan |-> TRUE, num |-> 0, den |-> 1]

\* ((price - sma) / sma) * 100 as the fraction (price - sma) / sma of 100
calculate_distance_from_sma(price, total, period) ==
    IF total = NaN THEN NaNFrac
    ELSE IF total = 0 THEN Frac(0, 1)
    ELSE Frac(price * period - total, total)

\* distance > pct (false of a missing distance)
DistanceAbove(distance, pct) ==
    ~distance.nan /\ 100 * distance.num > pct * distance.den

\* round(distance, 2) in 1/100 percent
RoundedDistance(distance) ==
    IF distance.nan THEN NaN ELSE RoundMulDiv(distance.num, 10000, distance.den)

\* round(sma, 2) in cents
RoundedSma(total, period) ==
    IF total = NaN THEN NaN ELSE RoundDiv(total, period)

\* round(slope, 4) in 1/10000 percent
RoundedSlope(slope) == RoundDiv(slope, SlopeScale \div 10000)

\* abs(slope) < bound, both in 1/SlopeScale percent
AbsBelow(slope, bound) == Abs(slope) < bound

\* series.max() / series.min(), missing values skipped
SeriesMax(s) == IF DropNa(s) = <<>> THEN NaN ELSE SeqMax(DropNa(s))

SeriesMin(s) == IF DropNa(s) = <<>> THEN NaN ELSE SeqMin(DropNa(s))

\* classify_phase's own volume ratio: the last volume against the mean of the
\* last 20 volumes, the last one included
PhaseVolumeRatio(volume) ==
    IF Len(volume) > 20
    THEN LET recent == DropNa(ILocLast(volume, 20))
             current_volume == volume[Len(volume)]
         IN  IF recent = <<>> \/ SeqSum(recent) = 0 THEN Frac(1, 1)
             ELSE IF current_volume = NaN THEN NaNFrac
             ELSE Frac(current_volume * Len(recent), SeqSum(recent))
    ELSE Frac(1, 1)

\* InsufficientData falling through to the Base Building defaults
InsufficientDataAsBase(reason) ==
    [phase |-> 1, phase_name |-> "Base Building", confidence |-> 50,
     reasons |-> <<reason>>]

InsufficientData(reason) ==
    [phase |-> 0, phase_name |-> "Insufficient Data", confidence |-> 0,
     reasons |-> <<reason>>]

\* the Phase 4 test of the chain
IsDowntrend(current_price, sma_50_val, sma_200_val) ==
    /\ sma_50_val # NaN /\ sma_200_val # NaN
    /\ current_price * 50 < sma_50_val
    /\ current_price * 200 < sma_200_val
    /\ sma_50_val * 4 < sma_200_val

\* the Phase 2 test of the chain
IsUptrend(current_price, sma_50_val, sma_200_val, slope_50) ==
    /\ sma_50_val # NaN /\ sma_200_val # NaN
    /\ current_price * 50 > sma_50_val
    /\ sma_50_val * 4 > sma_200_val
    /\ slope_50 > 0

\* the Phase 3 test of the chain
IsDistribution(current_price, sma_50_val) ==
    /\ sma_50_val # NaN
    /\ current_price * 50 > sma_50_val
    /\ DistanceAbove(calculate_distance_from_sma(current_price, sma_50_val, 50), 25)

\* PhaseOf with the Phase 3 test moved ahead of the Phase 2 test
PhaseOfDistributionFirst(current_price, sma_50_val, sma_200_val, slope_50) ==
    IF IsDowntrend(current_price, sma_50_val, sma_200_val) THEN 4
    ELSE IF IsDistribution(current_price, sma_50_val) THEN 3
    ELSE IF IsUptrend(current_price, sma_50_val, sma_200_val, slope_50) THEN 2
    ELSE 1

\* phase, with Phase 4 tested first
PhaseOf(current_price, sma_50_val, sma_200_val, slope_50) ==
    IF IsDowntrend(current_price, sma_50_val, sma_200_val) THEN 4
    ELSE IF IsUptrend(current_price, sma_50_val, sma_200_val, slope_50) THEN 2
    ELSE IF IsDistribution(current_price, sma_50_val) THEN 3
    ELSE 1

\* DowntrendConfidence without the second count of a falling 50 SMA
DowntrendConfidenceCountedOnce(slope_50, slope_200) ==
    [confidence |-> 70 + (IF slope_50 < 0 /\ slope_200 < 0 THEN 20 ELSE 0),
     reasons |-> <<"Price below both 50 SMA and 200 SMA",
                   "50 SMA below 200 SMA (Death Cross)">>
                 \o (IF slope_50 < 0 /\ slope_200 < 0
                     THEN <<"Both SMAs declining">> ELSE <<>>)]

\* confidence and reasons of each phase
DowntrendConfidence(slope_50, slope_200) ==
    [confidence |-> 70 + (IF slope_50 < 0 /\ slope_200 < 0 THEN 20 ELSE 0)
                       + (IF slope_50 < 0 THEN 10 ELSE 0),
     reasons |-> <<"Price below both 50 SMA and 200 SMA",
                   "50 SMA below 200 SMA (Death Cross)">>
                 \o (IF slope_50 < 0 /\ slope_200 < 0
                     THEN <<"Both SMAs declining">> ELSE <<>>)]

UptrendConfidence(slope_200, volume_ratio) ==
    LET expanding == ~volume_ratio.nan
                     /\ 10 * volume_ratio.num > 12 * volume_ratio.den
    IN  [confidence |-> 70 + (IF slope_200 > 0 THEN 15 ELSE 0)
                           + (IF expanding THEN 15 ELSE 0),
         reasons |-> <<"Price above 50 SMA", "50 SMA above 200 SMA (Golden Cross)",
                       "50 SMA rising">>
                     \o (IF slope_200 > 0 THEN <<"200 SMA also rising">> ELSE <<>>)
                     \o (IF expanding THEN <<"Volume expansion">> ELSE <<>>)]

DistributionConfidence(slope_50, slope_200) ==
    LET flattening == slope_50 < (5 * SlopeScale) \div 100
        weakening  == 2 * Abs(slope_50) < Abs(slope_200)
    IN  [confidence |-> 60 + (IF flattening THEN 20 ELSE 0)
                           + (IF weakening THEN 20 ELSE 0),
         reasons |-> <<"Price extended above 50 SMA">>
                     \o (IF flattening THEN <<"50 SMA flattening">> ELSE <<>>)
                     \o (IF weakening THEN <<"Momentum weakening">> ELSE <<>>)]

BaseConfidence(slope_50, slope_200, vol_data, volume_ratio) ==
    LET flat_50  == AbsBelow(slope_50, SlopeScale \div 10)
        flat_200 == AbsBelow(slope_200, (5 * SlopeScale) \div 100)
        quiet    == ~volume_ratio.nan /\ volume_ratio.num < volume_ratio.den
    IN  [confidence |-> 50 + (IF flat_50 THEN 15 ELSE 0)
                           + (IF flat_200 THEN 10 ELSE 0)
                           + (IF vol_data.is_contracting THEN 15 ELSE 0)
                           + (IF quiet THEN 10 ELSE 0),
         reasons |-> <<"Price in consolidation pattern">>
                     \o (IF flat_50 THEN <<"50 SMA flat">> ELSE <<>>)
                     \o (IF flat_200 THEN <<"200 SMA flat">> ELSE <<>>)
                     \o (IF vol_data.is_contracting
                         THEN <<"Volatility contracting">> ELSE <<>>)
                     \o (IF quiet THEN <<"Volume below average">> ELSE <<>>)]

PhaseName(phase) ==
    CASE phase = 4 -> "Downtrend"
      [] phase = 2 -> "Uptrend/Breakout"
      [] phase = 3 -> "Distribution/Top"
      [] OTHER     -> "Base Building"

classify_phase(price_data, current_price) ==
    IF BarCount(price_data) < 200
    THEN InsufficientData("Need at least 200 days of data")
    ELSE
    LET close   == price_data.Close
        high    == price_data.High
        low     == price_data.Low
        volume  == Get(price_data, "Volume", <<>>)
        sma_50  == calculate_sma(close, 50)
        sma_150 == calculate_sma(close, 150)
        sma_200 == calculate_sma(close, 200)
    IN  IF AllNa(sma_50) \/ AllNa(sma_200)
        THEN InsufficientData("Cannot calculate SMAs")
        ELSE
        LET n            == Len(close)
            sma_50_val   == sma_50[n]
            sma_150_val  == IF ~AllNa(sma_150) THEN sma_150[n] ELSE 0
            sma_200_val  == sma_200[n]
            week_52_high == SeriesMax(ILocLast(high, 252))
            week_52_low  == SeriesMin(ILocLast(low, 252))
            slope_50     == calculate_slope(sma_50, 20)
            slope_200    == calculate_slope(sma_200, 20)
            vol_data     == detect_volatility_contraction(close, 20)
            volume_ratio == PhaseVolumeRatio(volume)
            phase        == PhaseOf(current_price, sma_50_val, sma_200_val, slope_50)
            scored       ==
                CASE phase = 4 -> DowntrendConfidence(slope_50, slope_200)
                  [] phase = 2 -> UptrendConfidence(slope_200, volume_ratio)
                  [] phase = 3 -> DistributionConfidence(slope_50, slope_200)
                  [] OTHER     -> BaseConfidence(slope_50, slope_200, vol_data,
                                                 volume_ratio)
        IN  [phase        |-> phase,
             phase_name   |-> PhaseName(phase),
             confidence   |-> Min(scored.confidence, 100),
             reasons      |-> scored.reasons,
             sma_50       |-> RoundedSma(sma_50_val, 50),
             sma_150      |-> RoundedSma(sma_150_val, 150),
             sma_200      |-> RoundedSma(sma_200_val, 200),
             slope_50     |-> RoundedSlope(slope_50),
             slope_200    |-> RoundedSlope(slope_200),
             distance_from_50sma  |->
                 RoundedDistance(calculate_distance_from_sma(current_price,
                                                             sma_50_val, 50)),
             distance_from_200sma |->
                 RoundedDistance(calculate_distance_from_sma(current_price,
                                                             sma_200_val, 200)),
             week_52_high |-> week_52_high,
             week_52_low  |-> week_52_low,
             volatility_contraction |-> vol_data]

(***************************************************************************)
(* Call arguments.  A price table is a record of equally long columns      *)
(* (Close, High, Low and, when the table has one, Volume), oldest bar      *)
(* first.                                                                  *)
(***************************************************************************)
\* n values: `early' up to the last k of them, `late' for the last k
Step(n, k, early, late) == [i \in 1..n |-> IF i > n - k THEN late ELSE early]

\* s with its last two values replaced (as far as it has them)
EndWith(s, prev, last) ==
    [i \in 1..Len(s) |-> IF i = Len(s) THEN last
                         ELSE IF i = Len(s) - 1 THEN prev ELSE s[i]]

Shift(s, d) == [i \in 1..Len(s) |-> s[i] + d]

PriceTable(close, low, volume) ==
    [Close |-> close, High |-> close, Low |-> low, Volume |-> volume]

NoVolume(table) == [Close |-> table.Close, High |-> table.High, Low |-> table.Low]

NoResult == [raised |-> "no"]

(***************************************************************************)
(* SpecStop: one call of calculate_stop_loss                               *)
(***************************************************************************)
\* tables of up to 30 + ExtraBars bars
ExtraBars == 1

StopBarCounts == {1, 9, 10, 29} \cup (30..(30 + ExtraBars))

StopTables ==
    { PriceTable(Step(n, 0, 10000, 10000), Step(n, k, old, recent),
                 Step(n, 0, 1000, 1000)) :
        n \in StopBarCounts, k \in {3, 12}, old \in {8000, 9900},
        recent \in {8500, 9500, 9750, 10500} }

StopInputs ==
    [price_data    : StopTables,
     current_price : {9000, 10000, 10400},
     phase_info    : [phase : {1, 2}, sma_50 : {0, 9000, 9600, 9900, 11000}]]

InitStop == pc = "call" /\ args \in StopInputs /\ ret = NoResult

CallStopLoss ==
    /\ pc = "call"
    /\ ret' = [raised |-> "no",
               stop_loss |-> calculate_stop_loss(args.price_data, args.current_price,
                                                 args.phase_info, args.phase_info.phase)]
    /\ pc' = "done"
    /\ UNCHANGED args

NextStop == CallStopLoss

SpecStop == InitStop /\ [][NextStop]_vars

\* the phase-2 candidate stop of a finished call, max(0.995 * 10-bar low,
\* 0.99 * sma50), and the phase-1 candidate, 0.99 * 30-bar low (1/1000 cent)
StopCandidate2 ==
    Max(995 * SeqMin(ILocLast(args.price_data.Low, 10)), 990 * args.phase_info.sma_50)

StopCandidate1 == 990 * SeqMin(ILocLast(args.price_data.Low, 30))

\* the risk of stop s is below / above pct percent of the current price
StopRiskLt(s, pct) ==
    100 * (args.current_price * MoneyScale - s) < pct * args.current_price * MoneyScale

StopRiskGt(s, pct) ==
    100 * (args.current_price * MoneyScale - s) > pct * args.current_price * MoneyScale

\* C9: for every positive current_price the phase-2 stop risks between 3% and 10%
\* of the price (it is 0.97 * price when the candidate max(0.995 * 10-bar low,
\* 0.99 * sma50) risks less than 3%, 0.90 * price when it risks more than 10%, the
\* candidate otherwise); the phase-1 stop risks at most 10% (0.99 * 30-bar low,
\* or 0.90 * price when that risks more than 10%; no lower clamp).
C9_StopRiskClamped ==
    pc = "done" =>
        /\ args.current_price > 0
        /\ args.phase_info.phase = 2 =>
            /\ ~StopRiskLt(ret.stop_loss, 3)
            /\ ~StopRiskGt(ret.stop_loss, 10)
            /\ ret.stop_loss =
                 IF StopRiskLt(StopCandidate2, 3) THEN 970 * args.current_price
                 ELSE IF StopRiskGt(StopCandidate2, 10) THEN 900 * args.current_price
                 ELSE StopCandidate2
        /\ args.phase_info.phase = 1 =>
            /\ ~StopRiskGt(ret.stop_loss, 10)
            /\ ret.stop_loss =
                 IF StopRiskGt(StopCandidate1, 10) THEN 900 * args.current_price
                 ELSE StopCandidate1

\* a phase-2 call whose candidate stop lies above the price, forced to 0.97 * price
C9_Witness ==
    /\ pc = "done"
    /\ args.phase_info.phase = 2
    /\ StopCandidate2 > args.current_price * MoneyScale
    /\ ret.stop_loss = 970 * args.current_price

(***************************************************************************)
(* SpecBreakout: one call of detect_breakout                               *)
(***************************************************************************)
BreakoutBarCounts ==
    (0..2) \cup (19..21) \cup (59..(60 + ExtraBars))

BreakoutTables ==
    { PriceTable(EndWith(Step(n, 20, 10000, recent), prev, last),
                 Step(n, 0, 9000, 9000), Step(n, 0, 1000, 1000)) :
        n \in BreakoutBarCounts, recent \in {9500, 10000},
        prev \in {9400, 9900}, last \in {9700, 10000} }

BreakoutPhaseInfos ==
    {[phase |-> 0]} \cup [phase : 1..4, sma_50 : {0, 9500, 9750}]

BreakoutInputs ==
    [price_data    : BreakoutTables,
     current_price : {9600, 9800, 10100},
     phase_info    : BreakoutPhaseInfos]

InitBreakout == pc = "call" /\ args \in BreakoutInputs /\ ret = NoResult

CallDetectBreakout ==
    /\ pc = "call"
    /\ ret' = detect_breakout(args.price_data, args.current_price, args.phase_info)
    /\ pc' = "done"
    /\ UNCHANGED args

NextBreakout == CallDetectBreakout

SpecBreakout == InitBreakout /\ [][NextBreakout]_vars

\* C10: detect_breakout never raises for insufficient history: for phase 1 or 2
\* and a Close series of fewer than 60 bars it returns a breakout record, and
\* never a Base Breakout.
C10_BreakoutFailsSoft ==
    (pc = "done" /\ args.phase_info.phase \in {1, 2}
        /\ BarCount(args.price_data) < 60)
    => (~Raised(ret) /\ ret.breakout_type # "Base Breakout")

(***************************************************************************)
(* SpecSell: one call of score_sell_signal                                 *)
(***************************************************************************)
\* n values a, a + d, a + 2d, ...
Linear(n, a, d) == [i \in 1..n |-> a + d * (i - 1)]

SellBarCounts == 19..(21 + ExtraBars)

\* closes at one level; volume 1000 on every bar but the last
SellTables ==
    { PriceTable(Step(n, 0, c, c), Step(n, 0, c - 100, c - 100),
                 Step(n, 1, 1000, v)) :
        n \in SellBarCounts, c \in {9000, 10100},
        v \in {900, 1100, 1300, 1500, 1600} }

SellPhaseInfos ==
    {[phase |-> 0]}
    \cup [phase : 1..4, sma_50 : {10000}, sma_200 : {10500},
          slope_50 : {-50, 0, 30}]

\* 15-bar RS slopes -2.5, -2.0, -1.0, -0.5 (linear declines), 0 and positive
SellRSSeries ==
    { Linear(15, a, -1) : a \in {47, 57, 107, 207} }
    \cup {Linear(15, 50, 0), Linear(15, 40, 1), Linear(14, 47, -1)}

SellInputs ==
    [price_data     : SellTables \cup {NoVolume(t) : t \in SellTables},
     current_price  : {9400, 9500, 9700, 9800, 9900, 10000, 10500},
     phase_info     : SellPhaseInfos,
     rs_series      : SellRSSeries,
     previous_phase : {None, Some(1), Some(2)}]

InitSell == pc = "call" /\ args \in SellInputs /\ ret = NoResult

CallScoreSell ==
    /\ pc = "call"
    /\ ret' = score_sell_signal("T", args.price_data, args.current_price,
                                args.phase_info, args.rs_series,
                                args.previous_phase)
    /\ pc' = "done"
    /\ UNCHANGED args

NextSell == CallScoreSell

SpecSell == InitSell /\ [][NextSell]_vars

\* C4: score_sell_signal scores only phases 3 and 4: for phase 0, 1 or 2 it
\* returns is_sell = False, score = 0 and severity 'none', also when
\* previous_phase = 2 is supplied.
C4_SellOnlyPhases34 ==
    (pc = "done" /\ args.phase_info.phase \in {0, 1, 2})
    => (~ret.is_sell /\ ret.score = 0 /\ ret.severity = "none")

\* a finished call for phase 2 with previous_phase = 2 and a price below sma50
C4_Witness ==
    /\ pc = "done"
    /\ args.phase_info.phase = 2
    /\ args.previous_phase = Some(2)
    /\ args.current_price < args.phase_info.sma_50
    /\ ret.severity = "none"

\* the raw sell score of a finished call: the sub-scores and the failed-breakout
\* bonus, before the clamp
SellRawScore ==
    ret.details.breakdown_score + ret.details.volume_score + ret.details.rs_score
    + (IF "Failed breakout - closed back inside base"
            \in {ret.reasons[i] : i \in 1..Len(ret.reasons)}
       THEN 10 ELSE 0)

\* C5: for every scored sell result (phase 3 or 4) the score lies in [0,100],
\* also when the raw sum reaches 110; is_sell holds exactly when score >= 60;
\* severity is critical iff score >= 80, high iff 70 <= score < 80, medium iff
\* 60 <= score < 70, low iff score < 60, so is_sell is false whenever severity
\* is low.  (ret.score is in 1/10 point.)
C5_SellScoreAndSeverity ==
    (pc = "done" /\ args.phase_info.phase \in {3, 4}) =>
        /\ ret.score >= 0 /\ ret.score <= 1000
        /\ ret.score = 10 * Min(100, SellRawScore)
        /\ ret.is_sell <=> ret.score >= 600
        /\ ret.severity = "critical" <=> ret.score >= 800
        /\ ret.severity = "high" <=> (ret.score >= 700 /\ ret.score < 800)
        /\ ret.severity = "medium" <=> (ret.score >= 600 /\ ret.score < 700)
        /\ ret.severity = "low" <=> ret.score < 600
        /\ ret.severity = "low" => ~ret.is_sell

\* a scored result whose raw sum is 110 and whose score is 100
C5_Witness ==
    /\ pc = "done"
    /\ args.phase_info.phase \in {3, 4}
    /\ SellRawScore = 110
    /\ ret.score = 1000
    /\ ret.severity = "critical"

\* T, B and S of a finished call, computed from its arguments
C8_T ==
    IF args.previous_phase = Some(2) THEN 30
    ELSE IF args.phase_info.phase = 4 THEN 25 ELSE 15

C8_B ==
    LET price == args.current_price
        sma   == args.phase_info.sma_50
    IN  IF ~(price < sma) THEN 0
        ELSE IF 100 * (sma - price) > 5 * sma THEN 20
        ELSE IF 100 * (sma - price) > 2 * sma THEN 15
        ELSE 10

C8_S == IF args.phase_info.slope_50 < 0 THEN 10 ELSE 0

\* the scenario: 2 -> 4 transition, price 6% below sma50, negative slope50,
\* 20-bar volume ratio 1.6, 15-day RS slope -2.5
C8_Scenario ==
    /\ args.previous_phase = Some(2)
    /\ args.phase_info.phase = 4
    /\ 100 * args.current_price = 94 * args.phase_info.sma_50
    /\ args.phase_info.slope_50 < 0
    /\ "Volume" \in DOMAIN args.price_data
    /\ LET r == calculate_volume_ratio(args.price_data.Volume, 20)
       IN  10 * r[1] = 16 * r[2]
    /\ 2 * calculate_rs_slope(args.rs_series, 15) = -5 * SlopeScale

\* C8: the breakdown sub-score is min(60, T + B + S), T = 30 if previous_phase = 2
\* (else 25 in phase 4, 15 in phase 3), B = 20/15/10 when the price is more than
\* 5% / more than 2% / otherwise below sma50 (0 when not below), S = 10 if
\* slope50 < 0; the scenario yields breakdown 60, volume 30, RS 10, final score
\* 100 and severity critical.
C8_BreakdownScore ==
    (pc = "done" /\ args.phase_info.phase \in {3, 4}) =>
        /\ ret.details.breakdown_score = Min(60, C8_T + C8_B + C8_S)
        /\ C8_Scenario =>
            /\ ret.details.breakdown_score = 60
            /\ ret.details.volume_score = 30
            /\ ret.details.rs_score = 10
            /\ ret.score = 1000
            /\ ret.severity = "critical"

\* the scenario has been scored
C8_Witness ==
    /\ pc = "done"
    /\ C8_Scenario
    /\ ret.details.breakdown_score = 60
    /\ ret.score = 1000

(***************************************************************************)
(* SpecBuy: one call of score_buy_signal                                   *)
(***************************************************************************)
\* the PhaseInfo classify_phase builds for these values
PhaseInfoFor(phase, price, sma_50, sma_200, slope_50, slope_200) ==
    [phase |-> phase, sma_50 |-> sma_50, sma_200 |-> sma_200,
     slope_50 |-> slope_50, slope_200 |-> slope_200,
     distance_from_50sma  |->
         RoundedDistance(calculate_distance_from_sma(price, sma_50, 1)),
     distance_from_200sma |->
         RoundedDistance(calculate_distance_from_sma(price, sma_200, 1))]

\* s with its last Len(tail) values replaced by tail
EndWithTail(s, tail) ==
    [i \in 1..Len(s) |-> IF i > Len(s) - Len(tail)
                         THEN tail[i - (Len(s) - Len(tail))] ELSE s[i]]

BuyBarCounts == {29} \cup (60..(60 + ExtraBars))

\* closes at level c, the last six alternating between c - d and c; the last
\* five volumes alternating between up (on the up days) and 1000
BuyTable(n, c, d, up) ==
    PriceTable(EndWithTail(Step(n, 0, c, c), <<c - d, c, c - d, c, c - d, c>>),
               Step(n, 0, c - 100, c - 100),
               EndWithTail(Step(n, 0, 1000, 1000), <<up, 1000, up, 1000, up>>))

BuyTables ==
    { BuyTable(n, c, pat[1], pat[2]) :
        n \in BuyBarCounts, c \in {10000, 14000},
        pat \in {<<0, 1000>>, <<50, 800>>, <<50, 1300>>} }
    \cup { NoVolume(BuyTable(n, c, 50, 1000)) :
             n \in BuyBarCounts, c \in {10000, 14000} }

\* fundamentals in 1/10 percent
FullDict(rev, eps, inv) ==
    [revenue_yoy_change |-> rev, eps_yoy_change |-> eps,
     inventory_qoq_change |-> inv]

BuyFundamentals ==
    {None, Some(<<>>), Some([sector |-> 0]),
     Some([revenue_yoy_change |-> 100]), Some([eps_yoy_change |-> 100]),
     Some([inventory_qoq_change |-> 23]),
     Some(FullDict(100, 100, 23)), Some(FullDict(-250, 100, 23)),
     Some(FullDict(400, 600, -100)), Some(FullDict(100, 600, 200)),
     Some(FullDict(400, 100, 23))}

BuyRSSeries == {<<>>, Linear(20, 100, 1), Linear(20, 100, -1)}

BuyPrices == {9500, 10050, 10500, 10700, 11000, 12500, 13500}

\* <<phase, sma_200, slope_50>>: every combination for the scored phases, one for
\* each phase the scorer rejects
BuyPhaseConfigs ==
    ({1, 2} \X {9500, 10200} \X {-100, 300, 600})
    \cup {<<0, 0, 0>>, <<3, 9500, 300>>, <<4, 10200, -100>>}

\* <<current_price, phase_info>>
BuyQuotes ==
    { <<p, IF cfg[1] = 0 THEN [phase |-> 0]
           ELSE PhaseInfoFor(cfg[1], p, 10000, cfg[2], cfg[3], 200)>> :
        p \in BuyPrices, cfg \in BuyPhaseConfigs }

BuyInputs ==
    { [price_data    |-> t,
       current_price |-> q[1],
       phase_info    |-> q[2],
       rs_series     |-> rs,
       fundamentals  |-> f] :
        t \in BuyTables, q \in BuyQuotes, rs \in BuyRSSeries,
        f \in BuyFundamentals }

InitBuy == pc = "call" /\ args \in BuyInputs /\ ret = NoResult

CallScoreBuy ==
    /\ pc = "call"
    /\ ret' = score_buy_signal("T", args.price_data, args.current_price,
                               args.phase_info, args.rs_series, args.fundamentals)
    /\ pc' = "done"
    /\ UNCHANGED args

NextBuy == CallScoreBuy

SpecBuy == InitBuy /\ [][NextBuy]_vars

\* C2: score_buy_signal returns is_buy = False and score = 0 for every input whose
\* phase is not 1 or 2, whatever the price data, RS series and fundamentals are.
C2_BuyOnlyPhases12 ==
    (pc = "done" /\ args.phase_info.phase \notin {1, 2})
    => (~Raised(ret) /\ ~ret.is_buy /\ ret.score = 0)

\* a finished call for phase 3 with a price above the base high and strong
\* fundamentals
C2_Witness ==
    /\ pc = "done"
    /\ args.phase_info.phase = 3
    /\ args.current_price > SeqMax(args.price_data.Close)
    /\ args.fundamentals = Some(FullDict(400, 600, -100))
    /\ ret.score = 0

\* C3: for every result of score_buy_signal with phase 1 or 2 the returned score
\* lies in [0,110] and is_buy is true exactly when the returned score (rounded to
\* one decimal; ret.score is in 1/10 point) is >= 60.
C3_BuyScoreAndThreshold ==
    (pc = "done" /\ args.phase_info.phase \in {1, 2} /\ ~Raised(ret)) =>
        /\ ret.score >= 0 /\ ret.score <= 1100
        /\ ret.is_buy <=> ret.score >= 600

\* ---- score_buy_signal over a range of growth rates ----

\* growth rates in 1/10 percent: below, at and above the ends of both linear
\* ranges (-20%..+40% for revenue, -20%..+60% for EPS)
GrowthGrid == {-300, -200, -150, 0, 100, 250, 400, 500, 600, 700}

GrowthFundamentals ==
    { Some(FullDict(rev, eps, 23)) :
        rev \in {-300, -150, 100, 400}, eps \in {-200, 100, 500} }
    \cup {Some([revenue_yoy_change |-> 100]), Some([eps_yoy_change |-> 0]),
          Some([revenue_yoy_change |-> 0, eps_yoy_change |-> 0])}

GrowthTables ==
    { BuyTable(60, 10000, pat[1], pat[2]) :
        pat \in {<<0, 1000>>, <<50, 800>>, <<50, 1300>>} }
    \cup {NoVolume(BuyTable(60, 10000, 50, 1000))}

GrowthQuotes ==
    { <<p, PhaseInfoFor(cfg[1], p, 10000, cfg[2], cfg[3], 200)>> :
        p \in {10050, 10500, 11000, 13500},
        cfg \in {1, 2} \X {9500, 10200} \X {-100, 300, 600} }

GrowthInputs ==
    { [price_data    |-> t,
       current_price |-> q[1],
       phase_info    |-> q[2],
       rs_series     |-> rs,
       fundamentals  |-> f] :
        t \in GrowthTables, q \in GrowthQuotes,
        rs \in {<<>>, Linear(20, 100, 1)}, f \in GrowthFundamentals }

InitGrowth == pc = "call" /\ args \in GrowthInputs /\ ret = NoResult

SpecGrowth == InitGrowth /\ [][NextBuy]_vars

\* the finished call's result had fundamentals[key] been v instead
BuyResultWith(key, v) ==
    score_buy_signal("T", args.price_data, args.current_price, args.phase_info,
                     args.rs_series,
                     Some([k \in DOMAIN args.fundamentals.val |->
                             IF k = key THEN v ELSE args.fundamentals.val[k]]))

\* C7: with all other inputs fixed (phase 1 or 2, a fundamentals map supplied),
\* raising revenue_yoy_change or eps_yoy_change never lowers the returned score
\* and never turns is_buy from true to false.
C7_ScoreMonotoneInGrowth ==
    (pc = "done" /\ args.phase_info.phase \in {1, 2} /\ ~Raised(ret)
        /\ DictTruthy(args.fundamentals)) =>
        \A key \in {"revenue_yoy_change", "eps_yoy_change"}
                   \cap DOMAIN args.fundamentals.val :
            \A v \in GrowthGrid :
                v >= args.fundamentals.val[key] =>
                    LET higher == BuyResultWith(key, v)
                    IN  /\ higher.score >= ret.score
                        /\ ret.is_buy => higher.is_buy

\* a scored call that is no buy and becomes one with a higher revenue growth
C7_Witness ==
    /\ pc = "done"
    /\ args.phase_info.phase \in {1, 2}
    /\ ~Raised(ret)
    /\ DictTruthy(args.fundamentals)
    /\ "revenue_yoy_change" \in DOMAIN args.fundamentals.val
    /\ ~ret.is_buy
    /\ \E v \in GrowthGrid :
          /\ v > args.fundamentals.val["revenue_yoy_change"]
          /\ BuyResultWith("revenue_yoy_change", v).score > ret.score
          /\ BuyResultWith("revenue_yoy_change", v).is_buy

(***************************************************************************)
(* SpecClassify: one call of classify_phase                                *)
(***************************************************************************)
ClassifyBarCounts == {0, 150} \cup (199..(200 + ExtraBars)) \cup {252}

\* the close of bar i of n for each shape of history, in cents
ShapeClose(shape, n, i) ==
    CASE shape = "flat"   -> 1200
      [] shape = "up"     -> 1000 + i
      [] shape = "down"   -> 1400 - i
      [] shape = "peak"   -> IF i <= n - 30 THEN 1000 + i
                             ELSE 1000 + (n - 30) - 3 * (i - (n - 30))
      [] shape = "trough" -> IF i <= n - 30 THEN 1400 - i
                             ELSE 1400 - (n - 30) + 3 * (i - (n - 30))
      [] OTHER            -> 1200 + (IF i > n - 20 THEN i % 2 ELSE 40 * (i % 2))

\* the index of the bar whose close is missing (0: none is)
GapIndex(gap, n) ==
    CASE gap = "first"  -> 1
      [] gap = "middle" -> n - 100
      [] gap = "last"   -> n
      [] OTHER          -> 0

\* <<shape, gap>>
ClassifyHistories ==
    ({"flat", "up", "down", "peak", "trough", "settling"} \X {"none"})
    \cup ({"up"} \X {"first", "middle", "last"})

\* the last bar's volume after bars of 1000, or no Volume column
ClassifyVolumes == {None, Some(500), Some(1000), Some(1210), Some(1500)}

ClassifyTable(n, history, last_volume) ==
    LET close == [i \in 1..n |-> IF i = GapIndex(history[2], n) THEN NaN
                                 ELSE ShapeClose(history[1], n, i)]
        low   == [i \in 1..n |-> IF close[i] = NaN THEN NaN ELSE close[i] - 10]
    IN  IF last_volume.none
        THEN [Close |-> close, High |-> close, Low |-> low]
        ELSE [Close |-> close, High |-> close, Low |-> low,
              Volume |-> Step(n, 1, 1000, last_volume.val)]

ClassifyPrices == {1100, 1200, 1210, 1500, 1600}

ClassifyTables ==
    { ClassifyTable(n, h, v) :
        n \in ClassifyBarCounts, h \in ClassifyHistories, v \in ClassifyVolumes }

ClassifyInputs ==
    { [price_data |-> t, current_price |-> p] :
        t \in ClassifyTables, p \in ClassifyPrices }

InitClassify == pc = "call" /\ args \in ClassifyInputs /\ ret = NoResult

CallClassifyPhase ==
    /\ pc = "call"
    /\ ret' = classify_phase(args.price_data, args.current_price)
    /\ pc' = "done"
    /\ UNCHANGED args

NextClassify == CallClassifyPhase

SpecClassify == InitClassify /\ [][NextClassify]_vars

\* C1: classify_phase called with a price table of fewer than 200 bars returns
\* phase 0 with confidence 0, for every current_price and content of the bars.
C1_ShortHistoryIsPhase0 ==
    (pc = "done" /\ BarCount(args.price_data) < 200)
    => (ret.phase = 0 /\ ret.confidence = 0)

\* a finished call on 199 bars of a rising history priced above its averages
C1_Witness ==
    /\ pc = "done"
    /\ BarCount(args.price_data) = 199
    /\ args.price_data.Close[199] = 1199
    /\ args.current_price = 1210
    /\ ret.phase = 0

\* ---- the priority chain, read off the call's arguments ----
C6_Close == args.price_data.Close

\* the last period closes are all there
C6_Known(period) ==
    \A i \in 1..Len(C6_Close) :
        i > Len(C6_Close) - period => C6_Close[i] # NaN

\* period times the mean of the last period closes
C6_Total(period) == SeqSum(ILocLast(C6_Close, period))

C6_Slope50 == calculate_slope(calculate_sma(C6_Close, 50), 20)

\* price < sma50 and price < sma200 and sma50 < sma200
C6_Phase4Rule ==
    /\ C6_Known(200)
    /\ args.current_price * 50 < C6_Total(50)
    /\ args.current_price * 200 < C6_Total(200)
    /\ 4 * C6_Total(50) < C6_Total(200)

\* price > sma50 and sma50 > sma200 and slope50 > 0
C6_Phase2Rule ==
    /\ C6_Known(200)
    /\ args.current_price * 50 > C6_Total(50)
    /\ 4 * C6_Total(50) > C6_Total(200)
    /\ C6_Slope50 > 0

\* price > sma50 and the distance from sma50 > 25%
C6_Phase3Rule ==
    /\ C6_Known(50)
    /\ C6_Total(50) > 0
    /\ args.current_price * 50 > C6_Total(50)
    /\ 100 * (args.current_price * 50 - C6_Total(50)) > 25 * C6_Total(50)

C6_FirstMatch ==
    IF C6_Phase4Rule THEN 4
    ELSE IF C6_Phase2Rule THEN 2
    ELSE IF C6_Phase3Rule THEN 3
    ELSE 1

\* some 200 consecutive closes are all there, so that neither SMA series is
\* entirely undefined
C6_SmasExist ==
    \E i \in 200..Len(C6_Close) :
        \A j \in (i - 199)..i : C6_Close[j] # NaN

\* C6 as stated: for every input with at least 200 bars classify_phase returns the
\* phase of the first matching rule in the order Phase 4, Phase 2, Phase 3, else
\* Phase 1, and the Phase 4 and Phase 2 rules never both hold.
C6_FirstMatchingRule ==
    (pc = "done" /\ BarCount(args.price_data) >= 200) =>
        /\ ret.phase = C6_FirstMatch
        /\ ~(C6_Phase4Rule /\ C6_Phase2Rule)

\* C6 amended: the same for every input with at least 200 bars among whose closes
\* 200 consecutive ones are not missing; for the other inputs with at least 200
\* bars the result is phase 0 with confidence 0.
C6_FirstMatchingRuleWhenSmasExist ==
    (pc = "done" /\ BarCount(args.price_data) >= 200) =>
        IF C6_SmasExist
        THEN /\ ret.phase = C6_FirstMatch
             /\ ~(C6_Phase4Rule /\ C6_Phase2Rule)
        ELSE ret.phase = 0 /\ ret.confidence = 0

\* a finished call whose price is more than 25% above a rising 50 SMA that lies
\* above the 200 SMA: the Phase 2 and the Phase 3 rule both match, Phase 2 wins
C6_Witness ==
    /\ pc = "done"
    /\ BarCount(args.price_data) >= 200
    /\ C6_SmasExist
    /\ C6_Phase2Rule
    /\ C6_Phase3Rule
    /\ ret.phase = 2

(***************************************************************************)
(* signal_engine.format_signal_output                                      *)
(* The text is kept as its parts: the title line's values, the level line  *)
(* (None when it is not printed) and the bulleted reasons.  signal['x'] on *)
(* a record without the key x raises KeyError.                             *)
(***************************************************************************)
format_signal_output(signal, signal_type) ==
    IF "phase" \notin DOMAIN signal THEN Raise("KeyError")
    ELSE
    LET level_key == IF signal_type = "buy" THEN "breakout_price"
                     ELSE "breakdown_level"
        level == IF level_key \in DOMAIN signal /\ Truthy(signal[level_key])
                 THEN signal[level_key] ELSE None
        title == IF signal_type = "buy"
                 THEN <<"BUY SIGNAL", signal.ticker, signal.score, signal.phase>>
                 ELSE <<"SELL SIGNAL", signal.ticker, signal.score,
                        Get(signal, "severity", "unknown"), signal.phase>>
    IN  IF "reasons" \notin DOMAIN signal THEN Raise("KeyError")
        ELSE [raised |-> "no", title |-> title, level |-> level,
              reasons |-> signal.reasons]

(***************************************************************************)
(* SpecFormat: one call of a scorer, then the formatting of its record     *)
(***************************************************************************)
FormatTables ==
    {BuyTable(60, 10000, 50, 1300), NoVolume(BuyTable(60, 10000, 50, 1000))}

FormatQuotes ==
    { <<p, IF cfg[1] = 0 THEN [phase |-> 0]
           ELSE PhaseInfoFor(cfg[1], p, 10000, cfg[2], cfg[3], 200)>> :
        p \in {9500, 10050, 10700}, cfg \in BuyPhaseConfigs }

FormatInputs ==
    { [signal_type    |-> kind,
       price_data     |-> t,
       current_price  |-> q[1],
       phase_info     |-> q[2],
       rs_series      |-> rs,
       fundamentals   |-> f,
       previous_phase |-> prev] :
        kind \in {"buy", "sell"}, t \in FormatTables, q \in FormatQuotes,
        rs \in {Linear(20, 100, 1), Linear(20, 100, -1)},
        f \in {None, Some(FullDict(400, 600, -100))},
        prev \in {None, Some(2)} }

InitFormat == pc = "call" /\ args \in FormatInputs /\ ret = NoResult

FormatScoreBuy ==
    /\ pc = "call"
    /\ args.signal_type = "buy"
    /\ ret' = score_buy_signal("T", args.price_data, args.current_price,
                               args.phase_info, args.rs_series, args.fundamentals)
    /\ pc' = "scored"
    /\ UNCHANGED args

FormatScoreSell ==
    /\ pc = "call"
    /\ args.signal_type = "sell"
    /\ ret' = score_sell_signal("T", args.price_data, args.current_price,
                                args.phase_info, args.rs_series,
                                args.previous_phase)
    /\ pc' = "scored"
    /\ UNCHANGED args

CallFormatSignalOutput ==
    /\ pc = "scored"
    /\ ~Raised(ret)
    /\ ret' = format_signal_output(ret, args.signal_type)
    /\ pc' = "formatted"
    /\ UNCHANGED args

NextFormat == FormatScoreBuy \/ FormatScoreSell \/ CallFormatSignalOutput

SpecFormat == InitFormat /\ [][NextFormat]_vars

\* C11: every record returned by score_buy_signal and score_sell_signal, the
\* wrong-phase ones included, carries the keys phase and reasons, so that
\* format_signal_output reads it without raising.
C11_RecordsCarryPhaseAndReasons ==
    /\ pc = "scored" => {"phase", "reasons"} \subseteq DOMAIN ret
    /\ pc = "formatted" => ~Raised(ret)

(***************************************************************************)
(* SpecSma: one call of calculate_sma                                      *)
(***************************************************************************)
\* series of up to SmaMaxLen prices, periods up to one more
SmaMaxLen == 5

SmaSeries == UNION { [1..n -> {NaN, 100, 250}] : n \in 0..SmaMaxLen }

SmaInputs == [prices : SmaSeries, period : 1..(SmaMaxLen + 1)]

InitSma == pc = "call" /\ args \in SmaInputs /\ ret = NoResult

CallCalculateSma ==
    /\ pc = "call"
    /\ ret' = calculate_sma(args.prices, args.period)
    /\ pc' = "done"
    /\ UNCHANGED args

NextSma == CallCalculateSma

SpecSma == InitSma /\ [][NextSma]_vars

\* C12: calculate_sma(series, p) has the length of the series; it is undefined at
\* every index when the series is shorter than p, and otherwise defined at index
\* i only if p points end at i, so the first p-1 indices are undefined.
C12_SmaDefinedOnlyOnFullWindows ==
    pc = "done" =>
        /\ Len(ret) = Len(args.prices)
        /\ Len(args.prices) < args.period =>
               \A i \in 1..Len(ret) : ret[i] = NaN
        /\ \A i \in 1..Len(ret) :
               ret[i] # NaN =>
                   /\ i >= args.period
                   /\ \A j \in (i - args.period + 1)..i : args.prices[j] # NaN

\* a series at least as long as the period, two bars or more: undefined at index
\* p-1 although the bars before it have prices, defined at index p
C12_Witness ==
    /\ pc = "done"
    /\ args.period >= 2
    /\ Len(args.prices) >= args.period
    /\ \A j \in 1..args.period : args.prices[j] # NaN
    /\ ret[args.period - 1] = NaN
    /\ ret[args.period] # NaN

C13_Slope200 == calculate_slope(calculate_sma(C6_Close, 200), 20)

\* C13: when classify_phase returns phase 4 the confidence is 100 if the slopes of
\* the 50 and the 200 SMA are both negative, 80 if only the 50 SMA's slope is
\* negative, and 70 otherwise.
C13_DowntrendConfidence ==
    (pc = "done" /\ ret.phase = 4) =>
        ret.confidence = IF C6_Slope50 < 0 /\ C13_Slope200 < 0 THEN 100
                         ELSE IF C6_Slope50 < 0 THEN 80
                         ELSE 70

\* a Phase 4 result whose 50 SMA falls while its 200 SMA does not: confidence 80
C13_Witness ==
    /\ pc = "done"
    /\ ret.phase = 4
    /\ C6_Slope50 < 0
    /\ C13_Slope200 >= 0
    /\ ret.confidence = 80

\* volume_ratio(20) of the call's table: the last volume against the mean of the
\* 20 volumes before it, 1.0 without a Volume column
C14_VolumeRatio ==
    calculate_volume_ratio(Get(args.price_data, "Volume", <<>>), 20)

\* C14: when classify_phase returns phase 2, the +15 volume bonus and its reason
\* 'Volume expansion' are awarded exactly when volume_ratio(20) > 1.2, the ratio
\* of the last bar's volume to the mean volume of the 20 bars before it.
C14_VolumeBonusByVolumeRatio ==
    (pc = "done" /\ ret.phase = 2) =>
        LET awarded == 10 * C14_VolumeRatio[1] > 12 * C14_VolumeRatio[2]
        IN  /\ (\E i \in 1..Len(ret.reasons) : ret.reasons[i] = "Volume expansion")
                   <=> awarded
            /\ ret.confidence = 70 + (IF C13_Slope200 > 0 THEN 15 ELSE 0)
                                   + (IF awarded THEN 15 ELSE 0)

\* the 20-bar volume ratio of the call's table, 1.0 without a Volume column
C15_VolumeRatio ==
    calculate_volume_ratio(Get(args.price_data, "Volume", <<>>), 20)

\* the tier of the ratio: >= 1.5 -> 30, >= 1.3 -> 20, >= 1.1 -> 10, else 5
C15_Tier ==
    IF 10 * C15_VolumeRatio[1] >= 15 * C15_VolumeRatio[2] THEN 30
    ELSE IF 10 * C15_VolumeRatio[1] >= 13 * C15_VolumeRatio[2] THEN 20
    ELSE IF 10 * C15_VolumeRatio[1] >= 11 * C15_VolumeRatio[2] THEN 10
    ELSE 5

C15_Scored == pc = "done" /\ args.phase_info.phase \in {3, 4}

C15_VolumeKnown ==
    "Volume" \in DOMAIN args.price_data /\ BarCount(args.price_data) >= 20

InventoryGrid == {-300, -200, -100, -51, -50, -49, 0, 49, 50, 150, 200, 250}

FundamentalsMaps ==
    {None, Some(<<>>), Some([sector |-> 0])}
    \cup { Some(FullDict(rev, eps, inv)) :
             rev \in {-250, 100, 500}, eps \in {-250, 100, 700},
             inv \in InventoryGrid }
    \cup { Some([inventory_qoq_change |-> inv]) : inv \in InventoryGrid }
    \cup { Some([revenue_yoy_change |-> rev]) : rev \in {-250, 100, 500} }
    \cup { Some([eps_yoy_change |-> eps]) : eps \in {-250, 100, 700} }
    \cup { Some([revenue_yoy_change |-> 100, inventory_qoq_change |-> inv]) :
             inv \in InventoryGrid }

FundamentalsQuotes ==
    { <<p, PhaseInfoFor(phase, p, 10000, 9500, 300, 200)>> :
        p \in {10050, 10500}, phase \in {1, 2} }

FundamentalsInputs ==
    { [price_data    |-> BuyTable(60, 10000, 50, 1300),
       current_price |-> q[1],
       phase_info    |-> q[2],
       rs_series     |-> Linear(20, 100, 1),
       fundamentals  |-> f] :
        q \in FundamentalsQuotes, f \in FundamentalsMaps }

InitFundamentals == pc = "call" /\ args \in FundamentalsInputs /\ ret = NoResult

SpecFundamentals == InitFundamentals /\ [][NextBuy]_vars

\* the value of a key of the supplied map, None if the key or the map is absent
C16_Value(key) ==
    IF ~args.fundamentals.none /\ key \in DOMAIN args.fundamentals.val
    THEN Some(args.fundamentals.val[key]) ELSE None

\* revenue + EPS + inventory component + 5, a missing key taking 3.75, 3.75, 5
C16_Components ==
    RevenueScore(C16_Value("revenue_yoy_change"))
    + EpsScore(C16_Value("eps_yoy_change"))
    + InventoryScore(C16_Value("inventory_qoq_change")) + 5 * PT

C16_Bucket == ret.details.fundamental_score

\* C16 as stated: the fundamentals bucket of score_buy_signal is the flat 15 only
\* when no fundamentals are supplied; for every supplied map it is the revenue,
\* EPS and inventory components plus 5, so 17.5 for a map with none of the three
\* keys, and it lies in [5, 30].
C16_FundamentalsBucket ==
    pc = "done" =>
        /\ C16_Bucket = IF args.fundamentals.none THEN 15 * PT ELSE C16_Components
        /\ C16_Bucket >= 5 * PT /\ C16_Bucket <= 30 * PT

\* C16 amended: the bucket is the flat 15 when no fundamentals or an empty map
\* are supplied; for every non-empty map it is the revenue, EPS and inventory
\* components plus 5, and it lies in [5, 30].
C16_FundamentalsBucketOfNonEmptyMap ==
    pc = "done" =>
        /\ C16_Bucket = IF args.fundamentals.none \/ args.fundamentals.val = <<>>
                        THEN 15 * PT ELSE C16_Components
        /\ C16_Bucket >= 5 * PT /\ C16_Bucket <= 30 * PT

\* a map with none of the three keys: 3.75 + 3.75 + 5 + 5 = 17.5
C16_Witness ==
    /\ pc = "done"
    /\ args.fundamentals = Some([sector |-> 0])
    /\ 2 * C16_Bucket = 35 * PT

C17_Inventory == C16_Value("inventory_qoq_change")

\* the bucket less the revenue and EPS components and the flat 5
C17_InventoryComponent ==
    C16_Bucket - RevenueScore(C16_Value("revenue_yoy_change"))
               - EpsScore(C16_Value("eps_yoy_change")) - 5 * PT

C17_HasReason(reason) == \E i \in 1..Len(ret.reasons) : ret.reasons[i] = reason

\* C17: for a supplied inventory_qoq_change value inv the inventory component is
\* clamp(0, 10, 10 - (inv / 20) * 10), so a 10% draw scores the full 10 points,
\* and the reason 'Inventory drawing' is given exactly when inv < -5.
C17_InventoryComponentAndReason ==
    pc = "done" =>
        /\ ~C17_Inventory.none =>
               /\ 2 * C17_InventoryComponent
                      = Min(20 * PT, Max(0, 20 * PT - (PT \div 10) * C17_Inventory.val))
               /\ C17_Inventory.val = -100 => C17_InventoryComponent = 10 * PT
        /\ C17_HasReason("Inventory drawing")
               <=> (~C17_Inventory.none /\ C17_Inventory.val < -50)

\* a 10% draw: the clamp holds the component at 10 and the reason is given
C17_Witness ==
    /\ pc = "done"
    /\ C17_Inventory = Some(-100)
    /\ C17_InventoryComponent = 10 * PT
    /\ C17_HasReason("Inventory drawing")

\* ---- the breakout chain, read off the call's arguments ----
C18_Close == args.price_data.Close

\* max close over the trailing window bars, None if there are fewer
C18_High(window) ==
    IF Len(C18_Close) < window THEN None
    ELSE Some(SeqMax(ILocLast(C18_Close, window)))

C18_Sma50 == Get(args.phase_info, "sma_50", 0)

C18_BaseRule ==
    ~C18_High(60).none /\ args.current_price > C18_High(60).val

C18_PivotRule ==
    /\ ~C18_High(20).none /\ args.current_price > C18_High(20).val
    /\ ~C18_High(60).none /\ C18_High(20).val < C18_High(60).val

C18_SmaRule ==
    /\ args.current_price > C18_Sma50
    /\ Len(C18_Close) >= 2 /\ C18_Close[Len(C18_Close) - 1] < C18_Sma50

\* <<type, level>> of the first matching rule
C18_FirstMatch ==
    IF C18_BaseRule THEN <<"Base Breakout", C18_High(60).val>>
    ELSE IF C18_PivotRule THEN <<"Pivot Breakout", C18_High(20).val>>
    ELSE IF C18_SmaRule THEN <<"50 SMA Breakout", C18_Sma50>>
    ELSE <<"None", 0>>

\* C18: detect_breakout reports no breakout, with null level and type, whenever
\* the phase is not 1 or 2; otherwise it reports the first match of Base Breakout
\* (price above the 60-bar high), Pivot Breakout (price above a 20-bar high that
\* is below the base high), 50 SMA Breakout (price above sma50, previous close
\* below it), else none; a reported breakout's level is that of its type and not
\* above the current price.
C18_BreakoutChain ==
    pc = "done" =>
        /\ ~Raised(ret)
        /\ IF args.phase_info.phase \notin {1, 2} \/ C18_FirstMatch[1] = "None"
           THEN ret = NoBreakout
           ELSE /\ ret = Breakout(C18_FirstMatch[2], C18_FirstMatch[1])
                /\ ret.breakout_level.val <= args.current_price

(***************************************************************************)
(* SpecSlope: one call of calculate_slope                                  *)
(***************************************************************************)
\* series of up to SlopeMaxLen values, lookbacks up to one more
SlopeMaxLen == 4

\* prices in cents, some missing; and the series of zeros, whose mean is 0
SlopeSeries ==
    UNION { [1..n -> {NaN, 1000, 1010, 1030}] \cup {[i \in 1..n |-> 0]} :
              n \in 0..SlopeMaxLen }

SlopeInputs == [series : SlopeSeries, periods : 2..(SlopeMaxLen + 1)]

InitSlope == pc = "call" /\ args \in SlopeInputs /\ ret = NoResult

CallCalculateSlope ==
    /\ pc = "call"
    /\ ret' = calculate_slope(args.series, args.periods)
    /\ pc' = "done"
    /\ UNCHANGED args

NextSlope == CallCalculateSlope

SpecSlope == InitSlope /\ [][NextSlope]_vars

\* the non-missing points among the last lookback points of the series
C19_Points == DropNa(ILocLast(args.series, args.periods))

\* C19 as stated: calculate_slope(series, lookback) is the slope of the line
\* through the last lookback non-missing points whenever there are at least 2 of
\* them, also when they are fewer than lookback, and 0 only with fewer than 2
\* points (or a window mean of 0).
C19_SlopeOfLastPoints ==
    pc = "done" =>
        ret = IF Len(C19_Points) >= 2 THEN SlopePct(C19_Points) ELSE 0

\* C19 amended: the same for every series of at least lookback values, missing
\* ones counted; a series of fewer than lookback values gets 0.
C19_SlopeOfLastPointsOfLongSeries ==
    pc = "done" =>
        ret = IF Len(args.series) < args.periods THEN 0
              ELSE IF Len(C19_Points) >= 2 THEN SlopePct(C19_Points)
              ELSE 0

\* a series of at least lookback values of which 2 or more but fewer than
\* lookback are there in the window: their slope, not 0
C19_Witness ==
    /\ pc = "done"
    /\ Len(args.series) >= args.periods
    /\ Len(C19_Points) >= 2
    /\ Len(C19_Points) < args.periods
    /\ ret # 0

(***************************************************************************)
(* SpecVolatility: one call of detect_volatility_contraction               *)
(***************************************************************************)
\* series of up to VolatilityMaxLen prices, windows of 2 and 3 bars
VolatilityMaxLen == 6

VolatilitySeries ==
    UNION { [1..n -> {NaN, 1000, 1010, 1040}] : n \in 0..VolatilityMaxLen }

VolatilityInputs == [prices : VolatilitySeries, window : {2, 3}]

InitVolatility == pc = "call" /\ args \in VolatilityInputs /\ ret = NoResult

CallDetectVolatilityContraction ==
    /\ pc = "call"
    /\ ret' = detect_volatility_contraction(args.prices, args.window)
    /\ pc' = "done"
    /\ UNCHANGED args

NextVolatility == CallDetectVolatilityContraction

SpecVolatility == InitVolatility /\ [][NextVolatility]_vars

\* C20: detect_volatility_contraction(prices, W) reports is_contracting false and
\* contraction_quality 0 for fewer than 2*W points; otherwise is_contracting is
\* true exactly when the contraction ratio is below 0.70 and the quality is
\* (1 - ratio) * 100 clamped to [0, 100], so that a contracting result has a
\* quality of at least 30 and a result that is not contracting at most 30.
C20_ContractionQuality ==
    pc = "done" =>
        IF Len(args.prices) < 2 * args.window
        THEN ~ret.is_contracting /\ ret.contraction_quality = 0
        ELSE /\ ret.contraction_quality >= 0
             /\ ret.contraction_quality <= 10000
             /\ ret.is_contracting => ret.contraction_quality >= 3000
             /\ ~ret.is_contracting => ret.contraction_quality <= 3000

(***************************************************************************)
(* phase_indicators.calculate_relative_strength                            *)
(* A series is [dated, index, values]: dated says whether its index is a   *)
(* DatetimeIndex, index holds the dates in increasing order.  RS values    *)
(* are in 1/100 (floor).                                                   *)
(***************************************************************************)
\* spy_prices.reindex(stock_prices.index, method='ffill'): the value of the last
\* benchmark entry at or before each stock date, missing if there is none
ReindexFfill(spy, dates) ==
    [i \in 1..Len(dates) |->
        LET before == {j \in 1..Len(spy.index) : spy.index[j] <= dates[i]}
        IN  IF before = {} THEN NaN
            ELSE spy.values[CHOOSE j \in before : \A k \in before : k <= j]]

\* series.ffill(): a missing value takes the last value before it that is there
Ffill(s) ==
    [i \in 1..Len(s) |->
        LET known == {j \in 1..i : s[j] # NaN}
        IN  IF known = {} THEN NaN
            ELSE s[CHOOSE j \in known : \A k \in known : k <= j]]

\* (stock_prices / spy_aligned) * 100
RatioSeries(stock_values, spy_aligned) ==
    [i \in 1..Len(stock_values) |->
        IF stock_values[i] = NaN \/ spy_aligned[i] = NaN THEN NaN
        ELSE (stock_values[i] * 100 * 100) \div spy_aligned[i]]

\* calculate_relative_strength returning the ratios as they are computed
calculate_relative_strength_unfilled(stock_prices, spy_prices) ==
    LET undefined == [i \in 1..Len(stock_prices.values) |-> NaN]
    IN  IF Len(stock_prices.values) = 0 \/ Len(spy_prices.values) = 0
        THEN undefined
        ELSE IF ~stock_prices.dated \/ ~spy_prices.dated THEN undefined
        ELSE LET spy_aligned == ReindexFfill(spy_prices, stock_prices.index)
             IN  IF AllNa(spy_aligned) THEN undefined
                 ELSE RatioSeries(stock_prices.values, spy_aligned)

calculate_relative_strength(stock_prices, spy_prices) ==
    LET undefined == [i \in 1..Len(stock_prices.values) |-> NaN]
    IN  IF Len(stock_prices.values) = 0 \/ Len(spy_prices.values) = 0
        THEN undefined
        ELSE IF ~stock_prices.dated \/ ~spy_prices.dated THEN undefined
        ELSE LET spy_aligned == ReindexFfill(spy_prices, stock_prices.index)
             IN  IF AllNa(spy_aligned) THEN undefined
                 ELSE Ffill(RatioSeries(stock_prices.values, spy_aligned))

(***************************************************************************)
(* SpecRS: one call of calculate_relative_strength                         *)
(***************************************************************************)
\* the calendar has RSDates dates
RSDates == 3

\* the dates of a set in increasing order
RECURSIVE SortedDates(_)
SortedDates(dates) ==
    IF dates = {} THEN <<>>
    ELSE LET first == CHOOSE d \in dates : \A e \in dates : d <= e
         IN  <<first>> \o SortedDates(dates \ {first})

\* every series over some dates of the calendar with the given values
RSSeriesOver(values) ==
    UNION { { [dated |-> TRUE, index |-> SortedDates(dates), values |-> v] :
                v \in [1..Cardinality(dates) -> values] } :
            dates \in SUBSET (1..RSDates) }

RSUndated(series) ==
    [dated |-> FALSE, index |-> series.index, values |-> series.values]

RSStocks == RSSeriesOver({NaN, 100, 200})

RSBenchmarks == RSSeriesOver({NaN, 50})

RSInputs ==
    [stock_prices : RSStocks, spy_prices : RSBenchmarks]
    \cup [stock_prices : {RSUndated(s) : s \in RSStocks}, spy_prices : RSBenchmarks]
    \cup [stock_prices : RSStocks, spy_prices : {RSUndated(s) : s \in RSBenchmarks}]

InitRS == pc = "call" /\ args \in RSInputs /\ ret = NoResult

CallCalculateRelativeStrength ==
    /\ pc = "call"
    /\ ret' = calculate_relative_strength(args.stock_prices, args.spy_prices)
    /\ pc' = "done"
    /\ UNCHANGED args

NextRS == CallCalculateRelativeStrength

SpecRS == InitRS /\ [][NextRS]_vars

\* ---- the date join, read off the call's arguments ----
C21_Joined ==
    /\ args.stock_prices.dated /\ args.spy_prices.dated
    /\ Len(args.stock_prices.values) > 0 /\ Len(args.spy_prices.values) > 0

\* the value of the benchmark's last entry at or before the i-th stock date
C21_Benchmark(i) ==
    LET before == {j \in 1..Len(args.spy_prices.index) :
                     args.spy_prices.index[j] <= args.stock_prices.index[i]}
    IN  IF before = {} THEN NaN
        ELSE args.spy_prices.values[CHOOSE j \in before : \A k \in before : k <= j]

\* stock price / benchmark price * 100 on the i-th stock date, missing if either is
C21_Ratio(i) ==
    IF args.stock_prices.values[i] = NaN \/ C21_Benchmark(i) = NaN THEN NaN
    ELSE (args.stock_prices.values[i] * 100 * 100) \div C21_Benchmark(i)

\* C21 as stated: calculate_relative_strength joins by date; on a date where the
\* stock has a price the RS is stock price / benchmark price at or before the
\* date * 100, and a date on which the stock price is missing carries no RS
\* value, none being carried over from an earlier date.
C21_RSJoinDropsMissing ==
    (pc = "done" /\ C21_Joined) =>
        \A i \in 1..Len(args.stock_prices.values) :
            IF args.stock_prices.values[i] = NaN THEN ret[i] = NaN
            ELSE C21_Benchmark(i) # NaN => ret[i] = C21_Ratio(i)

\* C21 amended: one value for every stock date; it is the date's own ratio where
\* the stock and the benchmark entry at or before the date both have a price,
\* and otherwise the value of the last earlier date that has a ratio, missing
\* only if there is none.
C21_RSJoinCarriesForward ==
    (pc = "done" /\ C21_Joined) =>
        /\ Len(ret) = Len(args.stock_prices.values)
        /\ \A i \in 1..Len(ret) :
               IF C21_Ratio(i) # NaN THEN ret[i] = C21_Ratio(i)
               ELSE IF \E j \in 1..(i - 1) : C21_Ratio(j) # NaN
               THEN \E j \in 1..(i - 1) :
                       /\ C21_Ratio(j) # NaN
                       /\ \A k \in (j + 1)..(i - 1) : C21_Ratio(k) = NaN
                       /\ ret[i] = C21_Ratio(j)
               ELSE ret[i] = NaN

\* a date without a stock price that carries the RS of the date before it
C21_Witness ==
    /\ pc = "done"
    /\ C21_Joined
    /\ \E i \in 2..Len(ret) :
           /\ args.stock_prices.values[i] = NaN
           /\ C21_Ratio(i - 1) # NaN
           /\ ret[i] = C21_Ratio(i - 1)

(***************************************************************************)
(* phase_indicators.validate_minervini_trend_template                      *)
(* Prices in cents, slope_200 as in PhaseInfo; the two distances of        *)
(* criteria_details in 1/10 percent, template_score in whole points.       *)
(***************************************************************************)
\* Criterion 3: the 200 SMA now against 20 bars ago, a comparison with a missing
\* value being false; the PhaseInfo's slope_200 for a shorter series
Sma200Rising(phase_info, sma_200_series) ==
    IF Len(sma_200_series) >= 20
    THEN LET sma_200_1mo_ago == sma_200_series[Len(sma_200_series) - 19]
             sma_200_now     == sma_200_series[Len(sma_200_series)]
         IN  sma_200_1mo_ago # NaN /\ sma_200_now # NaN
             /\ sma_200_now > sma_200_1mo_ago
    ELSE Get(phase_info, "slope_200", 0) > 0

TemplateCriteria(current_price, phase_info, sma_200_series) ==
    LET sma_50       == Get(phase_info, "sma_50", 0)
        sma_150      == Get(phase_info, "sma_150", 0)
        sma_200      == Get(phase_info, "sma_200", 0)
        week_52_high == Get(phase_info, "week_52_high", 0)
        week_52_low  == Get(phase_info, "week_52_low", 0)
    IN  [price_above_150_200 |-> current_price > sma_150 /\ current_price > sma_200,
         sma_150_above_200   |-> sma_150 > sma_200,
         sma_200_rising      |-> Sma200Rising(phase_info, sma_200_series),
         sma_50_above_150    |-> sma_50 > sma_150,
         price_above_50      |-> current_price > sma_50,
         price_30pct_above_52w_low |->
             week_52_low > 0 /\ 100 * (current_price - week_52_low) >= 30 * week_52_low,
         distance_from_52w_low_pct |->
             IF week_52_low > 0
             THEN RoundMulDiv(current_price - week_52_low, 1000, week_52_low)
             ELSE 0,
         price_near_52w_high |->
             week_52_high > 0 /\ 100 * (week_52_high - current_price) <= 25 * week_52_high,
         distance_from_52w_high_pct |->
             IF week_52_high > 0
             THEN RoundMulDiv(week_52_high - current_price, 1000, week_52_high)
             ELSE 1000,
         confirmed_stage_2   |-> Get(phase_info, "phase", 0) = 2]

\* the eight booleans of criteria_details
CriteriaNames ==
    {"price_above_150_200", "sma_150_above_200", "sma_200_rising",
     "sma_50_above_150", "price_above_50", "price_30pct_above_52w_low",
     "price_near_52w_high", "confirmed_stage_2"}

\* template_score rounded to the nearest whole point
TemplateScoreRounded(passed_count) == RoundDiv(passed_count * 100, 8)

\* int((passed_count / 8) * 100)
TemplateScore(passed_count) == (passed_count * 100) \div 8

\* the template passing on 6 criteria
PassesTemplateOnSix(passed_count) == passed_count >= 6

PassesTemplate(passed_count) == passed_count >= 7

validate_minervini_trend_template(current_price, phase_info, sma_200_series) ==
    LET criteria     == TemplateCriteria(current_price, phase_info, sma_200_series)
        passed_count == Cardinality({c \in CriteriaNames : criteria[c]})
    IN  [passes_template  |-> PassesTemplate(passed_count),
         criteria_passed  |-> passed_count,
         criteria_total   |-> 8,
         template_score   |-> TemplateScore(passed_count),
         criteria_details |-> criteria]

(***************************************************************************)
(* SpecTemplate: one call of validate_minervini_trend_template             *)
(***************************************************************************)
TemplatePhaseInfos ==
    {[phase |-> 0]}
    \cup [phase : 1..4, sma_50 : {1000, 1100}, sma_150 : {1000, 1050},
          sma_200 : {1000, 1020}, week_52_high : {0, 1300, 2000},
          week_52_low : {0, 800, 1000}, slope_200 : {-10, 10}]

\* too short for the 20-bar comparison, rising, falling, and rising to a missing
\* last value
TemplateSmaSeries ==
    {<<>>, Linear(20, 1000, 1), Linear(21, 1040, -1),
     [i \in 1..20 |-> IF i = 20 THEN NaN ELSE 1000 + i]}

TemplateInputs ==
    [current_price : {900, 1200, 1400}, phase_info : TemplatePhaseInfos,
     sma_200_series : TemplateSmaSeries]

InitTemplate == pc = "call" /\ args \in TemplateInputs /\ ret = NoResult

CallValidateTrendTemplate ==
    /\ pc = "call"
    /\ ret' = validate_minervini_trend_template(args.current_price, args.phase_info,
                                                 args.sma_200_series)
    /\ pc' = "done"
    /\ UNCHANGED args

NextTemplate == CallValidateTrendTemplate

SpecTemplate == InitTemplate /\ [][NextTemplate]_vars

\* the number of the eight booleans of the returned criteria_details that hold
C22_Holding ==
    Cardinality({c \in CriteriaNames : ret.criteria_details[c]})

\* C22 as stated: criteria_passed is the number of the 8 criteria that hold,
\* template_score is criteria_passed / 8 * 100 for every count (87.5 for 7), and
\* passes_template is true exactly when criteria_passed >= 7.
C22_TemplateScoreExact ==
    pc = "done" =>
        /\ ret.criteria_passed = C22_Holding
        /\ 8 * ret.template_score = 100 * ret.criteria_passed
        /\ ret.passes_template <=> ret.criteria_passed >= 7

\* C22 amended: the same with template_score the whole part of
\* criteria_passed / 8 * 100: 0, 12, 25, 37, 50, 62, 75, 87, 100.
C22_TemplateScoreTruncated ==
    pc = "done" =>
        /\ ret.criteria_passed = C22_Holding
        /\ ret.criteria_passed \in 0..8
        /\ 8 * ret.template_score <= 100 * ret.criteria_passed
        /\ 8 * (ret.template_score + 1) > 100 * ret.criteria_passed
        /\ ret.passes_template <=> ret.criteria_passed >= 7

\* seven of the eight criteria hold: score 87, the template passes
C22_Witness ==
    /\ pc = "done"
    /\ ret.criteria_passed = 7
    /\ ret.template_score = 87
    /\ ret.passes_template

\* ---- the seven criteria other than the phase, read off the call's arguments ----
C25_Info(key) == Get(args.phase_info, key, 0)

C25_Sma200Risen ==
    IF Len(args.sma_200_series) >= 20
    THEN LET now == args.sma_200_series[Len(args.sma_200_series)]
             ago == args.sma_200_series[Len(args.sma_200_series) - 19]
         IN  now # NaN /\ ago # NaN /\ now > ago
    ELSE C25_Info("slope_200") > 0

C25_SevenOthersHold ==
    /\ args.current_price > C25_Info("sma_150")
    /\ args.current_price > C25_Info("sma_200")
    /\ C25_Info("sma_150") > C25_Info("sma_200")
    /\ C25_Sma200Risen
    /\ C25_Info("sma_50") > C25_Info("sma_150")
    /\ args.current_price > C25_Info("sma_50")
    /\ C25_Info("week_52_low") > 0
    /\ 100 * args.current_price >= 130 * C25_Info("week_52_low")
    /\ C25_Info("week_52_high") > 0
    /\ 100 * args.current_price >= 75 * C25_Info("week_52_high")

\* C25 as stated: for every PhaseInfo and current price, passes_template true
\* implies that the PhaseInfo's phase is 2.
C25_TemplateImpliesPhase2 ==
    (pc = "done" /\ ret.passes_template) => args.phase_info.phase = 2

\* C25 amended: passes_template true implies that the phase is 2 or that the
\* seven other criteria all hold; with phase 2, at least six of the seven hold.
C25_TemplateImpliesPhase2OrSevenOthers ==
    (pc = "done" /\ ret.passes_template) =>
        /\ args.phase_info.phase = 2 \/ C25_SevenOthersHold
        /\ ret.criteria_passed >= 7

\* a PhaseInfo of phase 1 that passes the template on the seven other criteria
C25_Witness ==
    /\ pc = "done"
    /\ args.phase_info.phase = 1
    /\ C25_SevenOthersHold
    /\ ret.passes_template
    /\ ret.criteria_passed = 7

\* ---- the reason strings of each scoring sub-component of score_buy_signal ----
C23_TrendReasons ==
    {"Strong Stage 2", "Good Stage 2", "Weak Stage 2", "Very weak Stage 2",
     "Near 50 SMA breakout", "Approaching 50 SMA", "Building base"}

C23_FundamentalsReasons ==
    {"Accelerating growth", "Strong growth", "Positive growth", "Growth stalling",
     "Declining", "Revenue trend", "EPS trend",
     "Growth data unavailable (neutral score)", "No fundamental data available"}

C23_VolumeReasons ==
    {"Volume heavier on up days", "Volume slightly heavier on up days",
     "Volume pattern neutral", "Volume heavier on down days"}

C23_RSReasons ==
    {"Excellent RS", "Strong RS", "Good RS", "Moderate RS", "Weak RS",
     "Negative RS", "RS data insufficient"}

C23_RiskRewardReasons ==
    {"Excellent R/R", "Good R/R", "Acceptable R/R", "Poor R/R"}

C23_EntryReasons ==
    {"Excellent entry zone", "Good entry zone", "Moderate entry", "Extended entry",
     "Excellent breakout zone", "Approaching entry zone",
     "Outside ideal entry zone"}

C23_Scored ==
    pc = "done" /\ ~Raised(ret) /\ args.phase_info.phase \in {1, 2}

C23_Gives(reasons) == \E i \in 1..Len(ret.reasons) : ret.reasons[i] \in reasons

\* C23: every scored buy result (phase 1 or 2) holds at least one reason of each
\* scoring sub-component - trend, fundamentals, volume behaviour, relative
\* strength, risk/reward and entry quality - also when the sub-component falls
\* back to its neutral default.
C23_EveryComponentGivesAReason ==
    C23_Scored =>
        /\ C23_Gives(C23_TrendReasons)
        /\ C23_Gives(C23_FundamentalsReasons)
        /\ C23_Gives(C23_VolumeReasons)
        /\ C23_Gives(C23_RSReasons)
        /\ C23_Gives(C23_RiskRewardReasons)
        /\ C23_Gives(C23_EntryReasons)

(***************************************************************************)
(* score_buy_signal at the borders of its entry bands: prices that put the *)
(* distance from the 50 SMA (100.00) on and just above 3, 6, 7 and 12 %.   *)
(***************************************************************************)
EntryPrices ==
    {9500, 9900, 10000, 10300, 10301, 10600, 10693, 10700, 10701, 11200, 11201,
     13000}

\* <<current_price, phase_info>>
EntryQuotes ==
    { <<p, PhaseInfoFor(phase, p, 10000, 9500, 300, 200)>> :
        p \in EntryPrices, phase \in {1, 2} }
    \cup { <<p, [phase |-> 2, sma_50 |-> 10000]>> : p \in {10300, 10701} }

EntryInputs ==
    { [price_data    |-> t,
       current_price |-> q[1],
       phase_info    |-> q[2],
       rs_series     |-> <<>>,
       fundamentals  |-> f] :
        t \in { BuyTable(n, 10000, 50, 1300) : n \in {29, 60} },
        q \in EntryQuotes,
        f \in {None, Some(FullDict(400, 600, -100))} }

InitEntry == pc = "call" /\ args \in EntryInputs /\ ret = NoResult

SpecEntry == InitEntry /\ [][NextBuy]_vars

C24_Reasons ==
    {"Excellent entry zone", "Good entry zone", "Moderate entry", "Extended entry"}

C24_Distance == Get(args.phase_info, "distance_from_50sma", 0)

C24_Given == SelectSeq(ret.reasons, LAMBDA r : r \in C24_Reasons)

C24_Band ==
    IF C24_Distance <= 300 THEN "Excellent entry zone"
    ELSE IF C24_Distance <= 700 THEN "Good entry zone"
    ELSE IF C24_Distance <= 1200 THEN "Moderate entry"
    ELSE "Extended entry"

\* C24: a scored phase-2 buy result holds exactly one of the four entry reasons,
\* and it is 'Excellent entry zone' for a distance from the 50 SMA of at most
\* 3 %, 'Good entry zone' above 3 % up to 7 % (7 % included), 'Moderate entry'
\* above 7 % up to 12 % and 'Extended entry' above 12 %.
C24_EntryReasonByBand ==
    (pc = "done" /\ ~Raised(ret) /\ args.phase_info.phase = 2)
        => C24_Given = <<C24_Band>>

C24_Witness ==
    /\ pc = "done" /\ ~Raised(ret) /\ args.phase_info.phase = 2
    /\ C24_Distance = 700
    /\ C24_Given = <<"Good entry zone">>

C28_FavourableReasons ==
    {"Excellent entry zone", "Excellent breakout zone", "Good entry zone"}

\* C28: in every scored buy result the entry_quality label agrees with the
\* entry reason: when the reasons hold 'Excellent entry zone', 'Excellent
\* breakout zone' or 'Good entry zone', entry_quality is 'Good' or 'Extended',
\* never 'Poor'.
C28_EntryQualityAgreesWithReason ==
    (/\ pc = "done" /\ ~Raised(ret) /\ args.phase_info.phase \in {1, 2}
     /\ \E i \in 1..Len(ret.reasons) : ret.reasons[i] \in C28_FavourableReasons)
        => ret.entry_quality \in {"Good", "Extended"}

(***************************************************************************)
(* score_buy_signal on inputs that drive its sub-scores to their maxima:   *)
(* steep SMA slopes, prices far above both SMAs and the 60-bar high, heavy *)
(* up-day volume, a steep RS line and fast-growing fundamentals.           *)
(***************************************************************************)
CeilingTables ==
    { BuyTable(60, c, 50, up) : c \in {10000, 14000}, up \in {1300, 2000} }

\* <<current_price, phase_info>>
CeilingQuotes ==
    { <<p, PhaseInfoFor(phase, p, 10000, sma_200, slope_50, slope_200)>> :
        p \in {10000, 10100, 10500, 12000, 12500, 13500}, phase \in {1, 2},
        sma_200 \in {9000, 9500}, slope_50 \in {300, 1000},
        slope_200 \in {200, 600} }

CeilingInputs ==
    { [price_data    |-> t,
       current_price |-> q[1],
       phase_info    |-> q[2],
       rs_series     |-> rs,
       fundamentals  |-> f] :
        t \in CeilingTables, q \in CeilingQuotes,
        rs \in {<<>>, Linear(20, 10, 5)},
        f \in {None, Some(FullDict(400, 600, -100)),
               Some(FullDict(1000, 1000, -300))} }

InitCeiling == pc = "call" /\ args \in CeilingInputs /\ ret = NoResult

SpecCeiling == InitCeiling /\ [][NextBuy]_vars

C26_Returned == pc = "done" /\ ~Raised(ret)

C26_Scored == C26_Returned /\ args.phase_info.phase \in {1, 2}

\* C26: the buy score never exceeds 100: the trend sub-score is at most 40,
\* fundamentals at most 30, volume and RS at most 10 each, risk/reward and entry
\* at most 5 each, so neither the cap of the trend sub-score at 50 nor the clamp
\* of the total at 110 ever binds.
C26_BuyScoreAtMost100 ==
    /\ C26_Returned => ret.score <= 1000
    /\ C26_Scored =>
        /\ ret.details.trend_score <= 40 * PT
        /\ ret.details.fundamental_score <= 30 * PT
        /\ ret.details.volume_score <= 10 * PT
        /\ ret.details.rs_score <= 1000
        /\ ret.details.rr_score <= 500
        /\ ret.details.entry_score <= 500

C26_Witness ==
    /\ C26_Scored
    /\ ret.details.trend_score = 40 * PT
    /\ ret.details.fundamental_score = 30 * PT
    /\ ret.details.volume_score = 10 * PT
    /\ ret.details.rs_score = 1000
    /\ ret.score >= 900

(***************************************************************************)
(* score_buy_signal around its stop-loss clamps: the 50 SMA at 100.00 and  *)
(* lows at 99.00 put the stop at 99.00, which risks less than 3 % of the   *)
(* price below 102.07, exactly 10 % at 110.00 and more than 10 % above.    *)
(***************************************************************************)
RiskRewardPrices ==
    {10000, 10500, 10700, 11000, 11001, 11002, 11004, 11021, 12500, 13500}

\* <<current_price, phase_info>>
RiskRewardQuotes ==
    { <<p, PhaseInfoFor(phase, p, 10000, 9500, 300, 200)>> :
        p \in RiskRewardPrices, phase \in {1, 2} }

RiskRewardInputs ==
    { [price_data    |-> t,
       current_price |-> q[1],
       phase_info    |-> q[2],
       rs_series     |-> <<>>,
       fundamentals  |-> f] :
        t \in { BuyTable(n, 10000, 50, 1300) : n \in {29, 60} },
        q \in RiskRewardQuotes,
        f \in {None, Some(FullDict(400, 600, -100))} }

InitRiskReward == pc = "call" /\ args \in RiskRewardInputs /\ ret = NoResult

SpecRiskReward == InitRiskReward /\ [][NextBuy]_vars

\* C27: every scored phase-2 buy result with a positive current price has a
\* risk/reward ratio of at least 2 and a risk/reward sub-score of at least 2.5,
\* and holds neither the reason 'Poor R/R' nor 'Acceptable R/R'.
C27_Phase2RiskRewardAtLeast2 ==
    (/\ pc = "done" /\ ~Raised(ret)
     /\ args.phase_info.phase = 2 /\ args.current_price > 0)
        => /\ ret.risk_reward_ratio >= 200
           /\ ret.details.rr_score >= 250
           /\ \A i \in 1..Len(ret.reasons) :
                  ret.reasons[i] \notin {"Poor R/R", "Acceptable R/R"}

\* C29: in every scored buy result (phase 1 or 2, positive current price) the
\* stop-loss lies strictly below the current price, so the risk is positive and
\* a risk/reward ratio is computed (a risk/reward reason is given); in phase 1
\* too, where the stop is 0.99 * the 30-bar low with no lower clamp.
C29_StopBelowPrice ==
    (/\ pc = "done" /\ ~Raised(ret)
     /\ args.phase_info.phase \in {1, 2} /\ args.current_price > 0)
        => /\ ret.details.stop_loss < args.current_price * MoneyScale
           /\ ret.stop_loss # None
           /\ ret.stop_loss.val <= args.current_price
           /\ C23_Gives(C23_RiskRewardReasons)

(***************************************************************************)
(* detect_breakout and score_buy_signal called with the last close of the  *)
(* table as current price.                                                 *)
(***************************************************************************)
LastCloseTables ==
    { PriceTable(EndWith(Step(n, 20, 10000, recent), prev, last),
                 Step(n, 0, 9000, 9000), Step(n, 0, 1000, 1000)) :
        n \in {1, 2, 19, 20, 21, 59, 60, 61}, recent \in {9500, 10000},
        prev \in {9400, 9900}, last \in {9700, 10000, 10200} }

LastCloseInputs ==
    { [price_data    |-> t,
       current_price |-> t.Close[Len(t.Close)],
       phase_info    |-> PhaseInfoFor(phase, t.Close[Len(t.Close)], sma_50, 9000,
                                      300, 200),
       rs_series     |-> <<>>,
       fundamentals  |-> None] :
        t \in LastCloseTables, phase \in 1..3, sma_50 \in {9500, 9750, 10300} }

InitLastClose == pc = "call" /\ args \in LastCloseInputs /\ ret = NoResult

NextLastClose == CallDetectBreakout \/ CallScoreBuy

SpecLastClose == InitLastClose /\ [][NextLastClose]_vars

\* the record of detect_breakout behind the result in ret
C30_BreakoutInfo ==
    IF "score" \notin DOMAIN ret THEN ret
    ELSE IF "breakout" \in DOMAIN ret.details THEN ret.details.breakout
    ELSE NoBreakout

\* the second-last close lies below the 50 SMA and the current price above it
C30_FreshCross ==
    /\ BarCount(args.price_data) >= 2
    /\ args.price_data.Close[BarCount(args.price_data) - 1] < args.phase_info.sma_50
    /\ args.phase_info.sma_50 < args.current_price

\* C30: when current_price is the last Close of the table, detect_breakout
\* reports neither a 'Base Breakout' nor a 'Pivot Breakout': a breakout it
\* reports is a '50 SMA Breakout', and score_buy_signal grants its breakout
\* bonus of 10 points only for a fresh cross of the 50 SMA.
C30_OnlySmaBreakoutAtLastClose ==
    (/\ pc = "done" /\ ~Raised(ret)
     /\ args.current_price = args.price_data.Close[BarCount(args.price_data)])
        => /\ C30_BreakoutInfo.breakout_type \notin {"Base Breakout", "Pivot Breakout"}
           /\ C30_BreakoutInfo.is_breakout
                  => /\ C30_BreakoutInfo.breakout_type = "50 SMA Breakout"
                     /\ C30_FreshCross
           /\ ("score" \in DOMAIN ret /\ args.phase_info.phase \in {1, 2})
                  => /\ C23_Gives({"Breakout"}) <=> C30_FreshCross
                     /\ ret.details.trend_score =
                            TrendPart(args.phase_info,
                                      [is_breakout |-> C30_FreshCross]).score

\* a scored result on 60 bars whose last close is their highest close and has
\* just crossed the 50 SMA: the bonus is granted for the 50 SMA breakout
C30_Witness ==
    /\ pc = "done" /\ ~Raised(ret) /\ "score" \in DOMAIN ret
    /\ BarCount(args.price_data) = 60
    /\ args.current_price = args.price_data.Close[60]
    /\ args.current_price = SeqMax(args.price_data.Close)
    /\ C30_BreakoutInfo.breakout_type = "50 SMA Breakout"
    /\ C23_Gives({"Breakout"})

====
